---- MODULE Spec2Model ----
(***************************************************************************)
(* Token authentication and session lifecycle of the multi-tenant chatbot  *)
(* API: the one-time token manager and the session token store of          *)
(* src/api/dependencies.py, the origin validator and the sliding-window    *)
(* rate limiter of src/api/clinical.py.                                    *)
(*                                                                         *)
(* Time is the wall clock in whole seconds.  A handler runs at one instant *)
(* of that clock: none of the modelled functions blocks, so the clock      *)
(* reads inside one call fall into the same second.                        *)
(***************************************************************************)
EXTENDS Integers, Sequences, FiniteSets, TLC

VARIABLES
    now,              \* the wall clock (datetime.utcnow(), time.time()), seconds
    rng,              \* number of tokens drawn from secrets.token_urlsafe so far
    sessionStore,     \* _session_store: session token -> (client_id, expiry)
    oneTimeTokens,    \* _one_time_tokens: token hash -> (client_id, expiry, used)
    tokHist,          \* history of the token operations (observation only)
    rateLimitStore,   \* _rate_limit_store: client key -> [(timestamp, count), ...]
    lastCleanupTime,  \* _last_cleanup_time
    rateHist,         \* history of the rate limiter's calls (observation only)
    allowedOrigins,   \* _allowed_origins_set, parsed from ALLOWED_ORIGINS at import
    clientsTable,     \* the table `clients` of the database: client_id -> row
    loop,             \* the request handler that runs on the event loop, 0 if none
    handlers,         \* the request handlers: where each is, and its locals
    ret               \* the last call and what it returned (observation only)

vars == <<now, rng, sessionStore, oneTimeTokens, tokHist,
          rateLimitStore, lastCleanupTime, rateHist, allowedOrigins, clientsTable,
          loop, handlers, ret>>

tokVars == <<rng, sessionStore, oneTimeTokens, tokHist>>

rateVars == <<rateLimitStore, lastCleanupTime, rateHist>>

\* what the steps of the token stores and of the rate limiter leave alone
loopVars == <<allowedOrigins, clientsTable, loop, handlers>>

-----------------------------------------------------------------------------
(* Program constants *)

SESSION_TOKEN_EXPIRY_HOURS == 4

ONE_TIME_TOKEN_EXPIRY_MINUTES == 5

RATE_LIMIT_REQUESTS == 60

RATE_LIMIT_WINDOW_SECONDS == 60

RATE_LIMIT_CLEANUP_INTERVAL == 300

HTTP_403_FORBIDDEN == 403

HTTP_401_UNAUTHORIZED == 401

HTTP_429_TOO_MANY_REQUESTS == 429

\* the status of FastAPI's answer to a request that lacks a parameter
\* declared as required, here Header(...)
HTTP_422_UNPROCESSABLE_ENTITY == 422

\* timedelta(hours=SESSION_TOKEN_EXPIRY_HOURS), in seconds
SessionLifetime == SESSION_TOKEN_EXPIRY_HOURS * 3600

\* timedelta(minutes=ONE_TIME_TOKEN_EXPIRY_MINUTES), in seconds
OneTimeLifetime == ONE_TIME_TOKEN_EXPIRY_MINUTES * 60

-----------------------------------------------------------------------------
(* Bounds and input sets *)

\* tokens the random generator hands out in one run
MaxTokens == 3

\* request handlers that run at the same time
MaxHandlers == 2

\* session tokens handed out in one run of the concurrent session handlers
MaxSessions == 2

\* requests the rate limiter records in one run of the whole API
MaxRequests == 1

\* static credentials the admin tool hands out in one run
MaxCredentials == 4

Handlers == 1 .. MaxHandlers

\* tenants (Client.client_id)
Clients == {"A", "B"}

\* the instants at which calls arrive in the token specification: issuance,
\* the last valid second and the first expired second of either lifetime
TokenTimePoints ==
    {0, OneTimeLifetime, OneTimeLifetime + 1, SessionLifetime, SessionLifetime + 1}

\* the token values a caller may present: every token handed out so far, and
\* 0, a value that secrets.token_urlsafe never hands out
PresentedTokens == 0 .. rng

-----------------------------------------------------------------------------
(* Optional values and dictionaries *)

None == <<>>

Some(v) == <<v>>

\* del d[k]
DictDel(d, k) == [x \in DOMAIN d \ {k} |-> d[x]]

\* d[k] = v
DictSet(d, k, v) == [x \in DOMAIN d \cup {k} |-> IF x = k THEN v ELSE d[x]]

EmptyDict == <<>>

\* hashlib.sha256(token.encode()).hexdigest(): a digest, never the token itself;
\* distinct tokens have distinct digests
Sha256(token) == <<"sha256", token>>

-----------------------------------------------------------------------------
(* Session token store *)

\* _cleanup_expired_sessions that removes nothing
_cleanup_expired_sessions_keeps(store, t) == store

\* the store without the records whose expiry lies before t
_cleanup_expired_sessions(store, t) ==
    [k \in {x \in DOMAIN store : ~(store[x].expiry < t)} |-> store[k]]

\* generate_session_token that binds every token to the same tenant
generate_session_token_one_tenant(store, client_id, token, t) ==
    DictSet(_cleanup_expired_sessions(store, t), token,
            [client_id |-> "A", expiry |-> t + SessionLifetime])

\* the store after generate_session_token(client_id) drew `token` at time t
generate_session_token(store, client_id, token, t) ==
    LET cleaned == _cleanup_expired_sessions(store, t)
        expiry == t + SessionLifetime
    IN  DictSet(cleaned, token, [client_id |-> client_id, expiry |-> expiry])

\* validate_session_token with sliding renewal: a valid token gets a new expiry
validate_session_token_sliding(store, session_token, t) ==
    LET cleaned == _cleanup_expired_sessions(store, t)
    IN  IF session_token \notin DOMAIN cleaned
        THEN [store |-> cleaned, result |-> None]
        ELSE [store |-> DictSet(cleaned, session_token,
                          [client_id |-> cleaned[session_token].client_id,
                           expiry |-> t + SessionLifetime]),
              result |-> Some(cleaned[session_token].client_id)]

\* validate_session_token(session_token) at time t: the store it leaves and
\* the value it returns
validate_session_token(store, session_token, t) ==
    LET cleaned == _cleanup_expired_sessions(store, t)
    IN  IF session_token \notin DOMAIN cleaned
        THEN [store |-> cleaned, result |-> None]
        ELSE IF t > cleaned[session_token].expiry
        THEN [store |-> DictDel(cleaned, session_token), result |-> None]
        ELSE [store |-> cleaned, result |-> Some(cleaned[session_token].client_id)]

\* revoke_session_token that reports the logout and keeps the record
revoke_session_token_keeps(store, session_token) ==
    [store |-> store, result |-> session_token \in DOMAIN store]

\* revoke_session_token(session_token)
revoke_session_token(store, session_token) ==
    IF session_token \in DOMAIN store
    THEN [store |-> DictDel(store, session_token), result |-> TRUE]
    ELSE [store |-> store, result |-> FALSE]

-----------------------------------------------------------------------------
(* One-time token manager *)

_cleanup_expired_one_time_tokens(tokens, t) ==
    [k \in {x \in DOMAIN tokens : ~(tokens[x].expiry < t)} |-> tokens[k]]

\* generate_one_time_url_token that gives the token the session lifetime
generate_one_time_long_lived(tokens, client_id, token, t) ==
    DictSet(_cleanup_expired_one_time_tokens(tokens, t), Sha256(token),
            [client_id |-> client_id, expiry |-> t + SessionLifetime, used |-> FALSE])

\* the store after generate_one_time_url_token(client_id) drew `token` at time t
generate_one_time_url_token(tokens, client_id, token, t) ==
    LET cleaned == _cleanup_expired_one_time_tokens(tokens, t)
        token_hash == Sha256(token)
        expiry == t + OneTimeLifetime
    IN  DictSet(cleaned, token_hash,
                [client_id |-> client_id, expiry |-> expiry, used |-> FALSE])

\* exchange_one_time_token that forgets to mark the token as used
exchange_without_mark(tokens, sessions, one_time_token, fresh, t) ==
    LET cleaned == _cleanup_expired_one_time_tokens(tokens, t)
        token_hash == Sha256(one_time_token)
    IN  IF token_hash \notin DOMAIN cleaned \/ t > cleaned[token_hash].expiry
        THEN [tokens |-> DictDel(cleaned, token_hash), sessions |-> sessions,
              drew |-> FALSE, result |-> None]
        ELSE [tokens |-> cleaned,
              sessions |-> generate_session_token(sessions,
                               cleaned[token_hash].client_id, fresh, t),
              drew |-> TRUE,
              result |-> Some(<<cleaned[token_hash].client_id, fresh>>)]

\* exchange_one_time_token up to the read of the record: the cleaned store,
\* whether it holds the token's hash, and the record read into the locals
one_time_lookup(tokens, one_time_token, t) ==
    LET cleaned == _cleanup_expired_one_time_tokens(tokens, t)
        token_hash == Sha256(one_time_token)
    IN  [tokens |-> cleaned,
         found |-> token_hash \in DOMAIN cleaned,
         rec |-> IF token_hash \in DOMAIN cleaned THEN cleaned[token_hash] ELSE None]

\* exchange_one_time_token from the test of `used` to the marking, with the
\* locals `rec` read before: the store, and whether the exchange goes on
one_time_consume(tokens, one_time_token, rec, t) ==
    LET token_hash == Sha256(one_time_token)
    IN  IF rec.used
        THEN [tokens |-> DictDel(tokens, token_hash), ok |-> FALSE]
        ELSE IF t > rec.expiry
        THEN [tokens |-> DictDel(tokens, token_hash), ok |-> FALSE]
        ELSE [tokens |-> DictSet(tokens, token_hash,
                            [client_id |-> rec.client_id,
                             expiry |-> rec.expiry, used |-> TRUE]),
              ok |-> TRUE]

\* exchange_one_time_token that generates the session token before it tests
\* whether the one-time token was used
exchange_one_time_token_mints_first(tokens, sessions, one_time_token, fresh, t) ==
    LET read == one_time_lookup(tokens, one_time_token, t)
        marked == one_time_consume(read.tokens, one_time_token, read.rec, t)
    IN  IF ~read.found
        THEN [tokens |-> read.tokens, sessions |-> sessions, drew |-> FALSE,
              result |-> None]
        ELSE [tokens |-> marked.tokens,
              sessions |-> generate_session_token(sessions, read.rec.client_id,
                                                  fresh, t),
              drew |-> TRUE,
              result |-> IF marked.ok THEN Some(<<read.rec.client_id, fresh>>)
                         ELSE None]

\* exchange_one_time_token(one_time_token) at time t; `fresh` is the session
\* token the generator hands out if the exchange gets that far
exchange_one_time_token(tokens, sessions, one_time_token, fresh, t) ==
    LET read == one_time_lookup(tokens, one_time_token, t)
        marked == one_time_consume(read.tokens, one_time_token, read.rec, t)
    IN  IF ~read.found
        THEN [tokens |-> read.tokens, sessions |-> sessions, drew |-> FALSE,
              result |-> None]
        ELSE IF ~marked.ok
        THEN [tokens |-> marked.tokens, sessions |-> sessions, drew |-> FALSE,
              result |-> None]
        ELSE [tokens |-> marked.tokens,
              sessions |-> generate_session_token(sessions, read.rec.client_id,
                                                  fresh, t),
              drew |-> TRUE,
              result |-> Some(<<read.rec.client_id, fresh>>)]

-----------------------------------------------------------------------------
(* Sliding-window rate limiter *)

\* _rate_limit_store[key] of a defaultdict(list)
Entries(store, key) == IF key \in DOMAIN store THEN store[key] ELSE <<>>

\* [(ts, count) for ts, count in entries if ts > cutoff]
Recent(entries, cutoff) == SelectSeq(entries, LAMBDA e : e[1] > cutoff)

\* sum(count for _, count in entries)
RECURSIVE SumCounts(_)
SumCounts(entries) ==
    IF entries = <<>> THEN 0 ELSE Head(entries)[2] + SumCounts(Tail(entries))

\* one key for every tenant
str_shared(client_id) == <<"str", "client">>

\* str(client_id): the store's key of a tenant
str(client_id) == <<"str", client_id>>

\* _cleanup_rate_limit_store that empties the store when the sweep is due
_cleanup_rate_limit_store_clears(store, last, t) ==
    IF t - last < RATE_LIMIT_CLEANUP_INTERVAL
    THEN [store |-> store, last |-> last]
    ELSE [store |-> EmptyDict, last |-> t]

\* _cleanup_rate_limit_store() at time t: the store and _last_cleanup_time
_cleanup_rate_limit_store(store, last, t) ==
    IF t - last < RATE_LIMIT_CLEANUP_INTERVAL
    THEN [store |-> store, last |-> last]
    ELSE LET cutoff == t - RATE_LIMIT_WINDOW_SECONDS
             kept == {k \in DOMAIN store : Recent(store[k], cutoff) # <<>>}
         IN  [store |-> [k \in kept |-> Recent(store[k], cutoff)], last |-> t]

\* _get_request_count that keeps the entries recorded exactly a window ago
_get_request_count_inclusive(store, client_id, t) ==
    LET recent_requests == Recent(Entries(store, client_id),
                                  t - RATE_LIMIT_WINDOW_SECONDS - 1)
    IN  [store |-> DictSet(store, client_id, recent_requests),
         count |-> SumCounts(recent_requests)]

\* _get_request_count(client_id) at time t: the pruned store and the sum
_get_request_count(store, client_id, t) ==
    LET cutoff == t - RATE_LIMIT_WINDOW_SECONDS
        recent_requests == Recent(Entries(store, client_id), cutoff)
    IN  [store |-> DictSet(store, client_id, recent_requests),
         count |-> SumCounts(recent_requests)]

\* _record_request that stamps the entry with the time rounded up to the
\* next second
_record_request_rounded_up(store, client_id, t) ==
    DictSet(store, client_id, Append(Entries(store, client_id), <<t + 1, 1>>))

\* _record_request(client_id) at time t
_record_request(store, client_id, t) ==
    DictSet(store, client_id, Append(Entries(store, client_id), <<t, 1>>))

\* check_rate_limit that counts the rejected call against the budget as well
check_rate_limit_counts_rejected(store, last, client_id, t) ==
    LET swept == _cleanup_rate_limit_store(store, last, t)
        counted == _get_request_count(swept.store, str(client_id), t)
    IN  [store |-> _record_request(counted.store, str(client_id), t),
         last |-> swept.last,
         result |-> IF counted.count >= RATE_LIMIT_REQUESTS
                    THEN <<FALSE, counted.count, RATE_LIMIT_REQUESTS>>
                    ELSE <<TRUE, counted.count + 1, RATE_LIMIT_REQUESTS>>]

\* check_rate_limit that rejects only above the ceiling
check_rate_limit_off_by_one(store, last, client_id, t) ==
    LET swept == _cleanup_rate_limit_store(store, last, t)
        counted == _get_request_count(swept.store, str(client_id), t)
    IN  IF counted.count > RATE_LIMIT_REQUESTS
        THEN [store |-> counted.store, last |-> swept.last,
              result |-> <<FALSE, counted.count, RATE_LIMIT_REQUESTS>>]
        ELSE [store |-> _record_request(counted.store, str(client_id), t),
              last |-> swept.last,
              result |-> <<TRUE, counted.count + 1, RATE_LIMIT_REQUESTS>>]

\* check_rate_limit(client_id) at time t: the store, _last_cleanup_time and
\* the returned (is_allowed, current_count, limit)
check_rate_limit(store, last, client_id, t) ==
    LET swept == _cleanup_rate_limit_store(store, last, t)
        client_key == str(client_id)
        counted == _get_request_count(swept.store, client_key, t)
        current_count == counted.count
    IN  IF current_count >= RATE_LIMIT_REQUESTS
        THEN [store |-> counted.store, last |-> swept.last,
              result |-> <<FALSE, current_count, RATE_LIMIT_REQUESTS>>]
        ELSE [store |-> _record_request(counted.store, client_key, t),
              last |-> swept.last,
              result |-> <<TRUE, current_count + 1, RATE_LIMIT_REQUESTS>>]

-----------------------------------------------------------------------------
(* Strings.  A str is the sequence of its characters. *)

UpperLetters ==
    <<"A", "B", "C", "D", "E", "F", "G", "H", "I", "J", "K", "L", "M", "N", "O", "P", "Q", "R", "S", "T", "U", "V", "W", "X", "Y", "Z">>

LowerLetters ==
    <<"a", "b", "c", "d", "e", "f", "g", "h", "i", "j", "k", "l", "m", "n", "o", "p", "q", "r", "s", "t", "u", "v", "w", "x", "y", "z">>

Digits == {"0", "1", "2", "3", "4", "5", "6", "7", "8", "9"}

\* the characters str.strip() removes
WhiteSpace == {" ", "\t", "\n", "\r", "\f"}

\* the lower-case letter of every upper-case letter
LowerCase ==
    [ch \in {UpperLetters[i] : i \in 1 .. Len(UpperLetters)} |->
        LowerLetters[CHOOSE i \in 1 .. Len(UpperLetters) : UpperLetters[i] = ch]]

LowerChar(ch) == IF ch \in DOMAIN LowerCase THEN LowerCase[ch] ELSE ch

\* s.lower()
Lower(s) == [i \in 1 .. Len(s) |-> LowerChar(s[i])]

\* s.lstrip()
RECURSIVE LStrip(_)
LStrip(s) == IF s # <<>> /\ Head(s) \in WhiteSpace THEN LStrip(Tail(s)) ELSE s

\* s.rstrip()
RECURSIVE RStrip(_)
RStrip(s) ==
    IF s # <<>> /\ s[Len(s)] \in WhiteSpace
    THEN RStrip(SubSeq(s, 1, Len(s) - 1)) ELSE s

\* s.strip()
Strip(s) == RStrip(LStrip(s))

\* s.startswith(prefix)
StartsWith(s, prefix) ==
    Len(prefix) <= Len(s) /\ SubSeq(s, 1, Len(prefix)) = prefix

\* s.endswith(suffix)
EndsWith(s, suffix) ==
    Len(suffix) <= Len(s) /\ SubSeq(s, Len(s) - Len(suffix) + 1, Len(s)) = suffix

\* the first place of s at or after `from` that holds one of `chars`, or
\* Len(s) + 1
Find(s, chars, from) ==
    LET hits == {i \in from .. Len(s) : s[i] \in chars}
    IN  IF hits = {} THEN Len(s) + 1 ELSE CHOOSE i \in hits : \A j \in hits : i <= j

\* s.split(sep), as a sequence of strings
RECURSIVE Split(_, _)
Split(s, sep) ==
    LET cut == Find(s, {sep}, 1)
    IN  IF cut > Len(s) THEN <<s>>
        ELSE <<SubSeq(s, 1, cut - 1)>> \o Split(SubSeq(s, cut + 1, Len(s)), sep)

\* urlparse(url): the scheme and the netloc
urlparse(url) ==
    LET colon == Find(url, {":"}, 1)
        letters == {UpperLetters[i] : i \in 1 .. Len(UpperLetters)}
                     \cup {LowerLetters[i] : i \in 1 .. Len(LowerLetters)}
        has_scheme == /\ 1 < colon /\ colon <= Len(url)
                      /\ url[1] \in letters
                      /\ \A i \in 1 .. colon - 1 :
                            url[i] \in letters \cup Digits \cup {"+", "-", "."}
        rest == IF has_scheme THEN SubSeq(url, colon + 1, Len(url)) ELSE url
        has_netloc == StartsWith(rest, <<"/", "/">>)
    IN  [scheme |-> IF has_scheme THEN Lower(SubSeq(url, 1, colon - 1)) ELSE <<>>,
         netloc |-> IF has_netloc
                    THEN SubSeq(rest, 3, Find(rest, {"/", "?", "#"}, 3) - 1)
                    ELSE <<>>]

-----------------------------------------------------------------------------
(* Origin validation *)

\* set(origin.strip().lower() for origin in ALLOWED_ORIGINS.split(',')
\*     if origin.strip())
ParseAllowedOrigins(ALLOWED_ORIGINS) ==
    LET parts == Split(ALLOWED_ORIGINS, ",")
    IN  {Lower(Strip(parts[i])) : i \in {j \in 1 .. Len(parts) : Strip(parts[j]) # <<>>}}

_normalize_origin(origin) ==
    IF origin = <<>> THEN <<>>
    ELSE LET lowered == Strip(Lower(origin))
         IN  IF EndsWith(lowered, <<"/">>)
             THEN SubSeq(lowered, 1, Len(lowered) - 1)
             ELSE lowered

\* _is_origin_allowed(origin) with _allowed_origins_set = allowed_set; an
\* absent header is the empty string
_is_origin_allowed(allowed_set, origin) ==
    IF origin = <<>> THEN TRUE
    ELSE IF <<"*">> \in allowed_set THEN TRUE
    ELSE LET normalized == _normalize_origin(origin)
         IN  \E allowed \in allowed_set :
                \/ normalized = _normalize_origin(allowed)
                \/ /\ StartsWith(allowed, <<"*", ".">>)
                   /\ LET domain == SubSeq(allowed, 3, Len(allowed))
                      IN  \/ EndsWith(normalized, domain)
                          \/ EndsWith(normalized, <<".">> \o domain)

\* try: ... except Exception: the handler logs whatever the block raised,
\* an HTTPException included, and the function goes on
ExceptException(raised) == None

\* validate_origin whose list of methods lacks PATCH
validate_origin_without_patch(allowed_set, method, origin, referer) ==
    IF method \in {"POST", "PUT", "DELETE"} /\ origin # <<>>
          /\ ~_is_origin_allowed(allowed_set, origin)
    THEN Some(HTTP_403_FORBIDDEN)
    ELSE None

\* validate_origin(request, origin, referer): the status of the HTTPException
\* it raises, or None when it returns
validate_origin(allowed_set, method, origin, referer) ==
    IF method \notin {"POST", "PUT", "DELETE", "PATCH"} THEN None
    ELSE IF origin # <<>>
    THEN IF ~_is_origin_allowed(allowed_set, origin)
         THEN Some(HTTP_403_FORBIDDEN)
         ELSE None
    ELSE IF referer # <<>>
    THEN LET parsed == urlparse(referer)
             referer_origin == parsed.scheme \o <<":", "/", "/">> \o parsed.netloc
         IN  ExceptException(IF ~_is_origin_allowed(allowed_set, referer_origin)
                             THEN Some(HTTP_403_FORBIDDEN)
                             ELSE None)
    ELSE None

-----------------------------------------------------------------------------
(* The clients table and the resolution of the presented token.  A row of  *)
(* the table holds the tenant's static credential (access_token, nullable, *)
(* unique) and its clinic_name; a Client object is its client_id.  Random  *)
(* tokens are the positive numbers, static credentials the negative ones.  *)

\* db.query(Client).filter(Client.client_id == client_id).first()
QueryClient(table, client_id) ==
    IF client_id \in DOMAIN table THEN Some(client_id) ELSE None

\* strings with a character outside ASCII
NonAscii == {-1000}

\* secrets.compare_digest(a, b) of two str: equality, and a TypeError when
\* either holds a character outside ASCII
compare_digest(a, b) ==
    IF a \in NonAscii \/ b \in NonAscii
    THEN [raised |-> Some("TypeError"), value |-> FALSE]
    ELSE [raised |-> None, value |-> a = b]

\* verify_client_token that takes an unset credential for an empty one
verify_client_token_null_matches(table, client_id, token) ==
    IF QueryClient(table, client_id) = None
    THEN [raised |-> None, value |-> FALSE]
    ELSE IF table[client_id].access_token = None
    THEN [raised |-> None, value |-> TRUE]
    ELSE compare_digest(table[client_id].access_token[1], token)

\* verify_client_token(db, client_id, token): the value it returns, or the
\* exception that leaves it
verify_client_token(table, client_id, token) ==
    LET client == QueryClient(table, client_id)
    IN  IF client = None
        THEN [raised |-> None, value |-> FALSE]
        ELSE IF table[client_id].access_token = None
        THEN [raised |-> None, value |-> FALSE]
        ELSE compare_digest(table[client_id].access_token[1], token)

\* get_client_by_token(db, token): the row whose access_token equals token;
\* the column is unique, and NULL equals nothing
get_client_by_token(table, token) ==
    LET rows == {c \in DOMAIN table : table[c].access_token = Some(token)}
    IN  IF rows = {} THEN None ELSE Some(CHOOSE c \in rows : TRUE)

\* require_client_token without the fall back to the access token
require_client_token_session_only(table, sessions, x_client_token, t) ==
    IF x_client_token = <<>>
    THEN [sessions |-> sessions, raised |-> Some(HTTP_401_UNAUTHORIZED),
          client |-> None]
    ELSE LET valid == validate_session_token(sessions, x_client_token[1], t)
             client == IF valid.result # None
                       THEN QueryClient(table, valid.result[1]) ELSE None
         IN  [sessions |-> valid.store,
              raised |-> IF client = None THEN Some(HTTP_401_UNAUTHORIZED) ELSE None,
              client |-> client]

\* require_client_token(x_client_token, db) at time t, for a header that is
\* present: the session store it leaves, the status of the HTTPException it
\* raises or None, and the client it returns.  The header's value is the
\* empty string <<>> or the string <<token>>.
require_client_token(table, sessions, x_client_token, t) ==
    IF x_client_token = <<>>
    THEN [sessions |-> sessions, raised |-> Some(HTTP_401_UNAUTHORIZED),
          client |-> None]
    ELSE LET token == x_client_token[1]
             valid == validate_session_token(sessions, token, t)
             client_id == valid.result
             by_session == IF client_id # None
                           THEN QueryClient(table, client_id[1]) ELSE None
             client == IF by_session # None THEN by_session
                       ELSE get_client_by_token(table, token)
         IN  IF client = None
             THEN [sessions |-> valid.store,
                   raised |-> Some(HTTP_401_UNAUTHORIZED), client |-> None]
             ELSE [sessions |-> valid.store, raised |-> None, client |-> client]

\* the headers of the 429 when no limit was hit, as of no response
NoHeaders == EmptyDict

\* rate_limit_dependency that tells the rejected caller to retry at once
rate_limit_dependency_retry_at_once(store, last, client_id, t) ==
    LET checked == check_rate_limit(store, last, client_id, t)
        is_allowed == checked.result[1]
        limit == checked.result[3]
    IN  IF ~is_allowed
        THEN [store |-> checked.store, last |-> checked.last,
              result |-> checked.result,
              raised |-> Some(HTTP_429_TOO_MANY_REQUESTS),
              headers |-> [retry_after |-> str(0),
                           limit |-> str(limit),
                           remaining |-> "0",
                           reset |-> str(t)]]
        ELSE [store |-> checked.store, last |-> checked.last,
              result |-> checked.result, raised |-> None, headers |-> NoHeaders]

\* rate_limit_dependency(client) at time t: the rate limiter's state, the
\* value check_rate_limit returned, and the status and the headers of the
\* HTTPException it raises, or None
rate_limit_dependency(store, last, client_id, t) ==
    LET checked == check_rate_limit(store, last, client_id, t)
        is_allowed == checked.result[1]
        limit == checked.result[3]
    IN  IF ~is_allowed
        THEN [store |-> checked.store, last |-> checked.last,
              result |-> checked.result,
              raised |-> Some(HTTP_429_TOO_MANY_REQUESTS),
              headers |-> [retry_after |-> str(RATE_LIMIT_WINDOW_SECONDS),
                           limit |-> str(limit),
                           remaining |-> "0",
                           reset |-> str(t + RATE_LIMIT_WINDOW_SECONDS)]]
        ELSE [store |-> checked.store, last |-> checked.last,
              result |-> checked.result, raised |-> None, headers |-> NoHeaders]

\* the protected routes of the clinical router
Routes ==
    {"clinical_chat", "get_profile", "list_sessions", "get_session",
     "rename_session", "delete_session"}

\* @router.post, .get, .patch, .delete
RouteMethod(route) ==
    CASE route = "clinical_chat" -> "POST"
      [] route \in {"get_profile", "list_sessions", "get_session"} -> "GET"
      [] route = "rename_session" -> "PATCH"
      [] route = "delete_session" -> "DELETE"

\* the Depends(...) of the route's signature, in its order; get_db, which
\* opens a database session and rejects nothing, is left out
RouteDependencies(route) ==
    CASE route = "clinical_chat" -> <<"rate_limit_dependency", "validate_origin">>
      [] route \in {"get_profile", "rename_session", "delete_session"} ->
            <<"require_client_token", "validate_origin">>
      [] route \in {"list_sessions", "get_session"} -> <<"require_client_token">>

\* the dependencies of a route with a rate limiter that counts the request
\* before the token is resolved, under the token when it is nobody's
SolveDependencies_limits_by_token(route, table, allowed, sessions, store, last, origin, referer, x_client_token, t) ==
    LET deps == RouteDependencies(route)
        missing == x_client_token = None
        auth == IF missing
                THEN [sessions |-> sessions, raised |-> None, client |-> None]
                ELSE require_client_token(table, sessions, x_client_token[1], t)
        limited == deps[1] = "rate_limit_dependency" /\ ~missing
        rate == IF limited
                THEN rate_limit_dependency(store, last,
                         IF auth.client # None THEN auth.client[1]
                         ELSE x_client_token[1], t)
                ELSE [store |-> store, last |-> last, result |-> None,
                      raised |-> None, headers |-> NoHeaders]
        checked == /\ Len(deps) > 1 /\ deps[2] = "validate_origin"
                   /\ auth.raised = None /\ rate.raised = None
        forbidden == IF checked
                     THEN validate_origin(allowed, RouteMethod(route), origin, referer)
                     ELSE None
    IN  [sessions |-> auth.sessions, store |-> rate.store, last |-> rate.last,
         client |-> auth.client,
         rate |-> IF limited /\ auth.client # None THEN Some(rate.result) ELSE None,
         headers |-> rate.headers,
         raised |-> IF auth.raised # None THEN auth.raised
                    ELSE IF rate.raised # None THEN rate.raised
                    ELSE IF forbidden # None THEN forbidden
                    ELSE IF missing THEN Some(HTTP_422_UNPROCESSABLE_ENTITY)
                    ELSE None]

\* the dependencies of a route, solved for one request at time t.  FastAPI
\* solves them in the order of the signature, a dependency's own
\* dependencies first; an HTTPException ends the request at once, while a
\* missing required header keeps the dependency (and those that depend on
\* it) from being called and is answered, with 422, once all are solved.
\* x_client_token is None for a request without the header.
SolveDependencies(route, table, allowed, sessions, store, last, origin, referer, x_client_token, t) ==
    LET deps == RouteDependencies(route)
        missing == x_client_token = None
        auth == IF missing
                THEN [sessions |-> sessions, raised |-> None, client |-> None]
                ELSE require_client_token(table, sessions, x_client_token[1], t)
        limited == deps[1] = "rate_limit_dependency" /\ auth.client # None
        rate == IF limited
                THEN rate_limit_dependency(store, last, auth.client[1], t)
                ELSE [store |-> store, last |-> last, result |-> None,
                      raised |-> None, headers |-> NoHeaders]
        checked == /\ Len(deps) > 1 /\ deps[2] = "validate_origin"
                   /\ auth.raised = None /\ rate.raised = None
        forbidden == IF checked
                     THEN validate_origin(allowed, RouteMethod(route), origin, referer)
                     ELSE None
    IN  [sessions |-> auth.sessions, store |-> rate.store, last |-> rate.last,
         client |-> auth.client,
         rate |-> IF limited THEN Some(rate.result) ELSE None,
         headers |-> rate.headers,
         raised |-> IF auth.raised # None THEN auth.raised
                    ELSE IF rate.raised # None THEN rate.raised
                    ELSE IF forbidden # None THEN forbidden
                    ELSE IF missing THEN Some(HTTP_422_UNPROCESSABLE_ENTITY)
                    ELSE None]

\* client.clinic_name or "Practice"
ClinicNameOr(table, client_id) ==
    IF table[client_id].clinic_name = "" THEN "Practice"
    ELSE table[client_id].clinic_name

\* TokenExchangeResponse with the clinic_name as the row holds it
TokenExchangeResponse_stored_name(table, session_token, client_id) ==
    [session_token |-> session_token,
     client_id |-> str(client_id),
     clinic_name |-> table[client_id].clinic_name,
     expires_in_hours |-> 4]

\* TokenExchangeResponse(...)
TokenExchangeResponse(table, session_token, client_id) ==
    [session_token |-> session_token,
     client_id |-> str(client_id),
     clinic_name |-> ClinicNameOr(table, client_id),
     expires_in_hours |-> 4]

\* exchange_token that runs the exchange before its origin check answers
exchange_token_origin_last(table, allowed, tokens, sessions, origin, referer, token, fresh, t) ==
    LET forbidden == validate_origin(allowed, "POST", origin, referer)
        result == exchange_one_time_token(tokens, sessions, token, fresh + 1, t)
        drawn == IF result.drew THEN 1 ELSE 0
        found == IF result.result # None
                 THEN QueryClient(table, result.result[1][1]) ELSE None
    IN  IF forbidden # None
        THEN [tokens |-> result.tokens, sessions |-> result.sessions,
              drawn |-> drawn, raised |-> forbidden, response |-> None]
        ELSE IF found # None
        THEN [tokens |-> result.tokens, sessions |-> result.sessions,
              drawn |-> drawn, raised |-> None,
              response |-> Some(TokenExchangeResponse(table, result.result[1][2],
                                                      result.result[1][1]))]
        ELSE [tokens |-> result.tokens, sessions |-> result.sessions,
              drawn |-> drawn, raised |-> Some(HTTP_401_UNAUTHORIZED),
              response |-> None]

\* exchange_token(request) with request.token = token at time t, after its
\* dependency validate_origin: the stores it leaves, the number of tokens it
\* drew from the generator (fresh + 1, fresh + 2), the status of the
\* HTTPException it raises or None, and the response
exchange_token(table, allowed, tokens, sessions, origin, referer, token, fresh, t) ==
    LET forbidden == validate_origin(allowed, "POST", origin, referer)
        \* the body of the function from `result` on
        Respond(result) ==
            LET found == IF result.result # None
                         THEN QueryClient(table, result.result[1][1]) ELSE None
                drawn == IF result.drew THEN 1 ELSE 0
                client == get_client_by_token(table, token)
                session_token == fresh + drawn + 1
            IN  IF found # None
                THEN [tokens |-> result.tokens, sessions |-> result.sessions,
                      drawn |-> drawn, raised |-> None,
                      response |-> Some(TokenExchangeResponse(
                                            table, result.result[1][2],
                                            result.result[1][1]))]
                ELSE IF client # None
                THEN [tokens |-> result.tokens,
                      sessions |-> generate_session_token(result.sessions, client[1],
                                                          session_token, t),
                      drawn |-> drawn + 1, raised |-> None,
                      response |-> Some(TokenExchangeResponse(
                                            table, session_token, client[1]))]
                ELSE [tokens |-> result.tokens, sessions |-> result.sessions,
                      drawn |-> drawn, raised |-> Some(HTTP_401_UNAUTHORIZED),
                      response |-> None]
    IN  IF forbidden # None
        THEN [tokens |-> tokens, sessions |-> sessions, drawn |-> 0,
              raised |-> forbidden, response |-> None]
        ELSE Respond(exchange_one_time_token(tokens, sessions, token, fresh + 1, t))

-----------------------------------------------------------------------------
(* Origins, allow-lists and requests of the origin validator's specification *)

Https == <<"h", "t", "t", "p", "s", ":", "/", "/">>

AppExample == Https \o <<"a", "p", "p", ".", "e", "x", "a", "m", "p", "l", "e">>

AppExampleShouted ==
    <<"H", "T", "T", "P", "S", ":", "/", "/", "A", "P", "P", ".", "E", "X",
      "A", "M", "P", "L", "E", "/">>

EvilExample == Https \o <<"e", "v", "i", "l", ".", "e", "x", "a", "m", "p", "l", "e">>

SubExampleCom == Https \o <<"s", "u", "b", ".", "e", "x", "a", "m", "p", "l", "e", ".", "c", "o", "m">>

NotExampleCom == Https \o <<"n", "o", "t", "e", "x", "a", "m", "p", "l", "e", ".", "c", "o", "m">>

\* ALLOWED_ORIGINS = "https://app.example"
OnlyAppExample == AppExample

\* ALLOWED_ORIGINS = " HTTPS://App.Example/ ,https://api.example"
SeveralOrigins ==
    <<" ", "H", "T", "T", "P", "S", ":", "/", "/", "A", "p", "p", ".", "E",
      "x", "a", "m", "p", "l", "e", "/", " ", ",", "h", "t", "t", "p", "s",
      ":", "/", "/", "a", "p", "i", ".", "e", "x", "a", "m", "p", "l", "e">>

\* ALLOWED_ORIGINS = "*.example.com"
WildcardDomain == <<"*", ".", "e", "x", "a", "m", "p", "l", "e", ".", "c", "o", "m">>

\* ALLOWED_ORIGINS = "https://app.example,*"
WildcardAll == AppExample \o <<",", "*">>

\* values of the environment variable ALLOWED_ORIGINS
ConfiguredOrigins == {OnlyAppExample, SeveralOrigins, WildcardDomain, WildcardAll}

\* request.method
Methods == {"GET", "HEAD", "OPTIONS", "POST", "PUT", "DELETE", "PATCH"}

\* values of the Origin header; the empty string stands for no header
OriginHeaders ==
    {<<>>, AppExample, AppExampleShouted, EvilExample, SubExampleCom, NotExampleCom}

\* values of the Referer header; the empty string stands for no header
RefererHeaders ==
    {<<>>,
     AppExample \o <<"/", "c", "h", "a", "t", "?", "x", "=", "1">>,
     EvilExample \o <<"/", "a", "t", "t", "a", "c", "k">>}

-----------------------------------------------------------------------------
(* The token operations as steps of the program *)

NoRet == [op |-> "none"]

\* both tenants hold a credential; B's clinic_name is the empty string
BothCredentials ==
    [c \in {"A", "B"} |->
        IF c = "A" THEN [access_token |-> Some(-1), clinic_name |-> "Clinic A"]
        ELSE [access_token |-> Some(-2), clinic_name |-> ""]]

\* B's access_token is NULL
NoCredentialForB ==
    [c \in {"A", "B"} |->
        IF c = "A" THEN [access_token |-> Some(-1), clinic_name |-> "Clinic A"]
        ELSE [access_token |-> None, clinic_name |-> "Clinic B"]]

\* the table has no row for B
NoRowForB ==
    [c \in {"A"} |-> [access_token |-> Some(-1), clinic_name |-> "Clinic A"]]

\* contents of the table `clients`
ClientTables == {BothCredentials, NoCredentialForB, NoRowForB}

InitHist ==
    [kind |-> EmptyDict,      \* token -> "one_time" or "session"
     at |-> EmptyDict,        \* token -> the time it was issued
     tenant |-> EmptyDict,    \* token -> the tenant it was issued for
     from |-> EmptyDict,      \* session token -> the one-time token exchanged for it
     succ |-> EmptyDict,      \* one-time token -> exchange calls that succeeded
     reused |-> {},           \* one-time tokens refused after a successful exchange
     revoked |-> {}]          \* session tokens passed to revoke

InitTokens ==
    /\ rng = 0
    /\ sessionStore = EmptyDict
    /\ oneTimeTokens = EmptyDict
    /\ tokHist = InitHist

InitRate ==
    /\ rateLimitStore = EmptyDict
    /\ lastCleanupTime = 0
    /\ rateHist = [c \in Clients |-> [calls |-> 0, last |-> -1, before |-> -1]]

IdleHandler == [pc |-> "idle", token |-> 0, rec |-> None, saw |-> "nothing",
                raced |-> FALSE, result |-> None]

InitLoop ==
    /\ loop = 0
    /\ handlers = [h \in Handlers |-> IdleHandler]

Init ==
    /\ now = 0
    /\ InitTokens
    /\ InitRate
    /\ InitLoop
    /\ allowedOrigins = ParseAllowedOrigins(OnlyAppExample)
    /\ clientsTable = BothCredentials
    /\ ret = NoRet

\* the clock moves on to a later instant of `points`; what the last call
\* returned belongs to the instant of the call
TickTo(points) ==
    /\ \E t \in points : t > now /\ now' = t
    /\ ret' = NoRet

Tick ==
    /\ TickTo(TokenTimePoints)
    /\ UNCHANGED <<tokVars, rateVars, loopVars>>

IsOneTime(token) == token \in DOMAIN tokHist.kind /\ tokHist.kind[token] = "one_time"

IsSession(token) == token \in DOMAIN tokHist.kind /\ tokHist.kind[token] = "session"

\* generate_one_time_url_token(c)
IssueOneTime(c) ==
    /\ rng < MaxTokens
    /\ LET token == rng + 1
       IN  /\ oneTimeTokens' = generate_one_time_url_token(oneTimeTokens, c, token, now)
           /\ rng' = token
           /\ tokHist' = [tokHist EXCEPT
                  !.kind = DictSet(@, token, "one_time"),
                  !.at = DictSet(@, token, now),
                  !.tenant = DictSet(@, token, c),
                  !.succ = DictSet(@, token, 0)]
           /\ ret' = [op |-> "issue", arg |-> c, res |-> token]
    /\ UNCHANGED <<now, sessionStore, rateVars, loopVars>>

\* exchange_one_time_token(token)
Exchange(token) ==
    LET fresh == rng + 1
        r == exchange_one_time_token(oneTimeTokens, sessionStore, token, fresh, now)
        ok == r.result # None
        known == IsOneTime(token)
    IN  /\ r.drew => rng < MaxTokens
        /\ oneTimeTokens' = r.tokens
        /\ sessionStore' = r.sessions
        /\ rng' = IF r.drew THEN fresh ELSE rng
        /\ tokHist' = [tokHist EXCEPT
               !.kind = IF r.drew THEN DictSet(@, fresh, "session") ELSE @,
               !.at = IF r.drew THEN DictSet(@, fresh, now) ELSE @,
               !.tenant = IF r.drew
                          THEN DictSet(@, fresh, r.sessions[fresh].client_id) ELSE @,
               !.from = IF r.drew THEN DictSet(@, fresh, token) ELSE @,
               !.succ = IF known /\ ok THEN DictSet(@, token, @[token] + 1) ELSE @,
               !.reused = IF known /\ ~ok /\ tokHist.succ[token] > 0
                          THEN @ \cup {token} ELSE @]
        /\ ret' = [op |-> "exchange", arg |-> token, res |-> r.result]
        /\ UNCHANGED <<now, rateVars, loopVars>>

\* validate_session_token(token)
Validate(token) ==
    LET r == validate_session_token(sessionStore, token, now)
    IN  /\ sessionStore' = r.store
        /\ ret' = [op |-> "validate", arg |-> token, res |-> r.result]
        /\ UNCHANGED <<now, rng, oneTimeTokens, tokHist, rateVars, loopVars>>

\* revoke_session_token(token)
Revoke(token) ==
    LET r == revoke_session_token(sessionStore, token)
    IN  /\ sessionStore' = r.store
        /\ tokHist' = [tokHist EXCEPT
               !.revoked = IF IsSession(token) THEN @ \cup {token} ELSE @]
        /\ ret' = [op |-> "revoke", arg |-> token, res |-> r.result]
        /\ UNCHANGED <<now, rng, oneTimeTokens, rateVars, loopVars>>

Next ==
    \/ Tick
    \/ \E c \in Clients : IssueOneTime(c)
    \/ \E token \in PresentedTokens : Exchange(token)
    \/ \E token \in PresentedTokens : Validate(token)
    \/ \E token \in PresentedTokens : Revoke(token)

Spec == Init /\ [][Next]_vars

-----------------------------------------------------------------------------
(* The rate limiter's calls as steps of the program *)

\* the instants at which calls arrive in the rate limiter's specification:
\* a burst, the last second of its window, the first second after it, the
\* first second after the window of the calls made in between, and the
\* first second at which the periodic sweep is due
RateTimePoints ==
    {0, RATE_LIMIT_WINDOW_SECONDS - 1, RATE_LIMIT_WINDOW_SECONDS,
     2 * RATE_LIMIT_WINDOW_SECONDS - 1, RATE_LIMIT_CLEANUP_INTERVAL}

\* the tenant whose calls arrive at every instant of RateTimePoints
BurstClients == {"A"}

\* the instants at which the calls of two tenants arrive in the specification
\* of the tenants' isolation: a burst of either, calls in the second before
\* the sweep is due, and the call that runs the sweep
TenantTimePoints ==
    {0, RATE_LIMIT_CLEANUP_INTERVAL - 1, RATE_LIMIT_CLEANUP_INTERVAL}

Arrivals ==
    {<<"A", 0>>, <<"B", 0>>, <<"B", RATE_LIMIT_CLEANUP_INTERVAL - 1>>,
     <<"A", RATE_LIMIT_CLEANUP_INTERVAL>>}

Min(a, b) == IF a < b THEN a ELSE b

\* check_rate_limit(c)
CheckRateLimit(c) ==
    LET r == check_rate_limit(rateLimitStore, lastCleanupTime, c, now)
    IN  /\ rateLimitStore' = r.store
        /\ lastCleanupTime' = r.last
        /\ rateHist' = [rateHist EXCEPT
               ![c].calls = Min(@ + 1, RATE_LIMIT_REQUESTS + 2),
               ![c].last = IF r.result[1] THEN now ELSE @]
        /\ ret' = [op |-> "check", arg |-> c, res |-> r.result]
        /\ UNCHANGED <<now, tokVars, loopVars>>

\* the clock moves on: the calls made so far lie before the new instant
RateTick(points) ==
    /\ TickTo(points)
    /\ rateHist' = [c \in Clients |->
                      [calls |-> 0, last |-> rateHist[c].last,
                       before |-> rateHist[c].last]]
    /\ UNCHANGED <<tokVars, rateLimitStore, lastCleanupTime, loopVars>>

TickRate == RateTick(RateTimePoints)

NextRate ==
    \/ TickRate
    \/ \E c \in BurstClients : CheckRateLimit(c)

SpecRate == Init /\ [][NextRate]_vars

TickTenants == RateTick(TenantTimePoints)

NextTenants ==
    \/ TickTenants
    \/ \E c \in Clients : <<c, now>> \in Arrivals /\ CheckRateLimit(c)

SpecTenants == Init /\ [][NextTenants]_vars

-----------------------------------------------------------------------------
(* Concurrent exchange requests.  exchange_token is a coroutine (async def) *)
(* of the one event loop: a handler that runs keeps the loop until it       *)
(* awaits or returns, and the other handlers take their steps meanwhile     *)
(* only at such points.                                                     *)

\* handlers that are preempted after every statement, as threads are
AwaitPointsOfThreads == {"consume", "mint"}

\* the places of exchange_token and exchange_one_time_token at which the
\* coroutine awaits: there is none
AwaitPoints == {}

\* the other handlers that wait to run with the same token as h
Rivals(h) ==
    {other \in Handlers \ {h} :
        handlers[other].pc = "lookup" /\ handlers[other].token = handlers[h].token}

\* the handler at `pc` leaves the loop to the others, or keeps it
LoopAfter(h, pc) == IF pc = "done" \/ pc \in AwaitPoints THEN 0 ELSE h

MayRun(h) == loop \in {0, h}

\* POST /auth/exchange arrives with `token` in its body
Receive(h, token) ==
    /\ handlers[h].pc = "idle"
    /\ handlers' = [handlers EXCEPT ![h].pc = "lookup", ![h].token = token]
    /\ ret' = NoRet
    /\ UNCHANGED <<now, tokVars, rateVars, loop, allowedOrigins, clientsTable>>

\* exchange_one_time_token: cleanup, hash, lookup, read of the record
Lookup(h) ==
    /\ handlers[h].pc = "lookup"
    /\ MayRun(h)
    /\ LET read == one_time_lookup(oneTimeTokens, handlers[h].token, now)
           pc == IF read.found THEN "consume" ELSE "done"
       IN  /\ oneTimeTokens' = read.tokens
           /\ handlers' = [x \in Handlers |->
                  IF x = h
                  THEN [handlers[h] EXCEPT
                          !.pc = pc,
                          !.rec = read.rec,
                          !.raced = @ \/ Rivals(h) # {},
                          !.saw = IF ~read.found THEN "nothing"
                                  ELSE IF read.rec.used THEN "consumed"
                                  ELSE "unconsumed"]
                  ELSE [handlers[x] EXCEPT !.raced = @ \/ x \in Rivals(h)]]
           /\ loop' = LoopAfter(h, pc)
    /\ ret' = NoRet
    /\ UNCHANGED <<now, rng, sessionStore, tokHist, rateVars, allowedOrigins,
                   clientsTable>>

\* exchange_one_time_token: the tests of used and expiry, the marking as used
Consume(h) ==
    /\ handlers[h].pc = "consume"
    /\ MayRun(h)
    /\ LET marked == one_time_consume(oneTimeTokens, handlers[h].token,
                                      handlers[h].rec, now)
           pc == IF marked.ok THEN "mint" ELSE "done"
       IN  /\ oneTimeTokens' = marked.tokens
           /\ handlers' = [handlers EXCEPT ![h].pc = pc]
           /\ loop' = LoopAfter(h, pc)
    /\ ret' = NoRet
    /\ UNCHANGED <<now, rng, sessionStore, tokHist, rateVars, allowedOrigins,
                   clientsTable>>

\* exchange_one_time_token: generate_session_token and the return
Mint(h) ==
    /\ handlers[h].pc = "mint"
    /\ MayRun(h)
    /\ rng < MaxTokens
    /\ LET fresh == rng + 1
           client_id == handlers[h].rec.client_id
       IN  /\ sessionStore' = generate_session_token(sessionStore, client_id, fresh, now)
           /\ rng' = fresh
           /\ tokHist' = [tokHist EXCEPT
                  !.kind = DictSet(@, fresh, "session"),
                  !.at = DictSet(@, fresh, now),
                  !.tenant = DictSet(@, fresh, client_id),
                  !.from = DictSet(@, fresh, handlers[h].token)]
           /\ handlers' = [handlers EXCEPT
                  ![h].pc = "done",
                  ![h].result = Some(<<client_id, fresh>>)]
           /\ loop' = LoopAfter(h, "done")
    /\ ret' = NoRet
    /\ UNCHANGED <<now, oneTimeTokens, rateVars, allowedOrigins, clientsTable>>

\* the instants at which exchange requests arrive: issuance, the last valid
\* second and the first expired second of a one-time token
LoopTimePoints == {0, OneTimeLifetime, OneTimeLifetime + 1}

\* the clock moves on between the runs of the handlers
TickLoop ==
    /\ loop = 0
    /\ TickTo(LoopTimePoints)
    /\ UNCHANGED <<tokVars, rateVars, loopVars>>

NextLoop ==
    \/ TickLoop
    \/ \E c \in Clients : IssueOneTime(c)
    \/ \E h \in Handlers, token \in PresentedTokens : Receive(h, token)
    \/ \E h \in Handlers : Lookup(h)
    \/ \E h \in Handlers : Consume(h)
    \/ \E h \in Handlers : Mint(h)

SpecLoop == Init /\ [][NextLoop]_vars

-----------------------------------------------------------------------------
(* The origin validator's calls as steps of the program *)

InitOrigin ==
    /\ now = 0
    /\ InitTokens
    /\ InitRate
    /\ InitLoop
    /\ \E configured \in ConfiguredOrigins :
          allowedOrigins = ParseAllowedOrigins(configured)
    /\ clientsTable = BothCredentials
    /\ ret = NoRet

\* validate_origin for a request with this method and these headers
ValidateOrigin(method, origin, referer) ==
    /\ ret' = [op |-> "origin",
               arg |-> [method |-> method, origin |-> origin, referer |-> referer],
               res |-> validate_origin(allowedOrigins, method, origin, referer)]
    /\ UNCHANGED <<now, tokVars, rateVars, loopVars>>

NextOrigin ==
    \E method \in Methods, origin \in OriginHeaders, referer \in RefererHeaders :
        ValidateOrigin(method, origin, referer)

SpecOrigin == InitOrigin /\ [][NextOrigin]_vars

-----------------------------------------------------------------------------
(* The static credential verifier's calls, and the admin tool that assigns *)
(* the credentials, as steps of the program                                *)

InitVerify ==
    /\ now = 0
    /\ InitTokens
    /\ InitRate
    /\ InitLoop
    /\ allowedOrigins = ParseAllowedOrigins(OnlyAppExample)
    /\ clientsTable \in ClientTables
    /\ ret = NoRet

\* the credentials the table holds
CredentialsOf(table) ==
    {table[c].access_token[1] : c \in {x \in DOMAIN table : table[x].access_token # None}}

\* secrets.token_hex(32): a string no earlier call has returned
token_hex(table) ==
    LET held == CredentialsOf(table) \cup {0}
    IN  (CHOOSE m \in held : \A x \in held : m <= x) - 1

\* generate_and_assign_token(client_id) of the admin tool
AssignToken(client_id) ==
    /\ token_hex(clientsTable) >= -MaxCredentials
    /\ IF QueryClient(clientsTable, client_id) = None
       THEN /\ clientsTable' = clientsTable
            /\ ret' = [op |-> "assign", arg |-> client_id, res |-> None]
       ELSE LET new_token == token_hex(clientsTable)
            IN  /\ clientsTable' =
                      [clientsTable EXCEPT ![client_id].access_token = Some(new_token)]
                /\ ret' = [op |-> "assign", arg |-> client_id, res |-> Some(new_token)]
    /\ UNCHANGED <<now, tokVars, rateVars, allowedOrigins, loop, handlers>>

\* the tenant ids a caller may name: B has no row in one table, C in none
NamedClients == Clients \cup {"C"}

\* the candidates a caller may present: every credential the tool can hand
\* out, a string that is none of them, and a string outside ASCII
Candidates == (-MaxCredentials .. 0) \cup NonAscii

\* verify_client_token(db, client_id, token)
VerifyClientToken(client_id, token) ==
    /\ ret' = [op |-> "verify", arg |-> [client_id |-> client_id, token |-> token],
               res |-> verify_client_token(clientsTable, client_id, token)]
    /\ UNCHANGED <<now, tokVars, rateVars, loopVars>>

NextVerify ==
    \/ \E client_id \in NamedClients : AssignToken(client_id)
    \/ \E client_id \in NamedClients, token \in Candidates :
          VerifyClientToken(client_id, token)

SpecVerify == InitVerify /\ [][NextVerify]_vars

-----------------------------------------------------------------------------
(* The requests to the API as steps of the program *)

InitPipeline ==
    /\ now = 0
    /\ InitTokens
    /\ InitRate
    /\ InitLoop
    /\ allowedOrigins = ParseAllowedOrigins(OnlyAppExample)
    /\ clientsTable \in ClientTables
    /\ ret = NoRet

\* entries in the rate limiter's store
TotalEntries(store) ==
    LET keys == DOMAIN store
        count[ks \in SUBSET keys] ==
            IF ks = {} THEN 0
            ELSE LET k == CHOOSE x \in ks : TRUE
                 IN  Len(store[k]) + count[ks \ {k}]
    IN  count[keys]

\* POST /auth/exchange with {token} in its body
ExchangeEndpoint(origin, referer, token) ==
    \E r \in {exchange_token(clientsTable, allowedOrigins, oneTimeTokens, sessionStore,
                           origin, referer, token, rng, now)} :
    LET ok == r.sessions # sessionStore /\ rng + 1 \in DOMAIN r.sessions
                /\ IsOneTime(token) /\ r.sessions[rng + 1].client_id = tokHist.tenant[token]
                /\ oneTimeTokens # r.tokens
                /\ Sha256(token) \in DOMAIN r.tokens
        minted == {k \in DOMAIN r.sessions : k > rng}
    IN  /\ rng + r.drawn <= MaxTokens
        /\ oneTimeTokens' = r.tokens
        /\ sessionStore' = r.sessions
        /\ rng' = rng + r.drawn
        /\ tokHist' = [tokHist EXCEPT
               !.kind = [k \in DOMAIN @ \cup minted |->
                           IF k \in minted THEN "session" ELSE @[k]],
               !.at = [k \in DOMAIN @ \cup minted |-> IF k \in minted THEN now ELSE @[k]],
               !.tenant = [k \in DOMAIN @ \cup minted |->
                             IF k \in minted THEN r.sessions[k].client_id ELSE @[k]],
               !.from = [k \in DOMAIN @ \cup minted |-> IF k \in minted THEN token ELSE @[k]],
               !.succ = IF ok THEN DictSet(@, token, @[token] + 1) ELSE @,
               !.reused = IF IsOneTime(token) /\ ~ok /\ r.raised # Some(HTTP_403_FORBIDDEN)
                             /\ tokHist.succ[token] > 0
                          THEN @ \cup {token} ELSE @]
        /\ ret' = [op |-> "exchange_token",
                   arg |-> [origin |-> origin, token |-> token],
                   raised |-> r.raised, response |-> r.response]
        /\ UNCHANGED <<now, rateVars, loopVars>>

\* a request to a protected route
RouteRequest(route, origin, referer, x_client_token) ==
    \E r \in {SolveDependencies(route, clientsTable, allowedOrigins, sessionStore,
                              rateLimitStore, lastCleanupTime,
                              origin, referer, x_client_token, now)} :
        /\ sessionStore' = r.sessions
        /\ rateLimitStore' = r.store
        /\ lastCleanupTime' = r.last
        /\ rateHist' = IF r.rate = None THEN rateHist
                       ELSE [rateHist EXCEPT
                               ![r.client[1]].calls = Min(@ + 1, RATE_LIMIT_REQUESTS + 2),
                               ![r.client[1]].last = IF r.rate[1][1] THEN now ELSE @]
        /\ ret' = [op |-> "request",
                   arg |-> [route |-> route, origin |-> origin, referer |-> referer,
                            x_client_token |-> x_client_token],
                   client |-> r.client, rate |-> r.rate,
                   raised |-> r.raised, headers |-> r.headers]
        /\ UNCHANGED <<now, rng, oneTimeTokens, tokHist, loopVars>>

\* the instants at which the requests arrive: a first window and the next
PipelineTimePoints == {0, RATE_LIMIT_WINDOW_SECONDS}

\* Origin headers of the requests: none, an allowed and a disallowed one
PipelineOrigins == {<<>>, AppExample, EvilExample}

\* X-Client-Token: no header, the empty string, the tenants' credentials
\* and one that is nobody's
ClientTokenHeaders == {None, Some(<<>>), Some(<<-1>>), Some(<<-2>>), Some(<<-3>>)}

TickPipeline == RateTick(PipelineTimePoints)

NextPipeline ==
    \/ TickPipeline
    \/ \E route \in Routes, origin \in PipelineOrigins,
          x_client_token \in ClientTokenHeaders :
            /\ RouteRequest(route, origin, <<>>, x_client_token)
            /\ TotalEntries(rateLimitStore') <= MaxRequests

SpecPipeline == InitPipeline /\ [][NextPipeline]_vars

\* the instants at which requests with session tokens arrive: issuance, and
\* the first expired second of a session token issued then
ResolveTimePoints == {0, SessionLifetime + 1}

\* the routes that depend on require_client_token itself
ResolveRoutes == {route \in Routes : RouteDependencies(route)[1] = "require_client_token"}

\* X-Client-Token: the empty string, the random tokens handed out so far,
\* the tenants' credentials and one that is nobody's
ResolveHeaders ==
    {Some(<<>>)} \cup {Some(<<token>>) : token \in (1 .. rng) \cup {-1, -2, -3}}

TickResolve ==
    /\ TickTo(ResolveTimePoints)
    /\ UNCHANGED <<tokVars, rateVars, loopVars>>

NextResolve ==
    \/ TickResolve
    \/ \E c \in Clients : IssueOneTime(c)
    \/ \E token \in 1 .. rng : ExchangeEndpoint(AppExample, <<>>, token)
    \/ \E route \in ResolveRoutes, x_client_token \in ResolveHeaders :
          RouteRequest(route, AppExample, <<>>, x_client_token)

SpecResolve == InitPipeline /\ [][NextResolve]_vars

\* the instants at which exchange requests arrive: issuance and the first
\* expired second of a one-time token
ExchangeTimePoints == {0, OneTimeLifetime + 1}

\* Origin headers of the exchange requests: an allowed and a disallowed one
ExchangeOrigins == {AppExample, EvilExample}

\* the strings a caller may present for exchange: the random tokens handed
\* out so far, 0, the tenants' credentials and one that is nobody's
ExchangeTokens == PresentedTokens \cup {-1, -2, -3}

TickExchange ==
    /\ TickTo(ExchangeTimePoints)
    /\ UNCHANGED <<tokVars, rateVars, loopVars>>

NextExchange ==
    \/ TickExchange
    \/ \E c \in Clients : IssueOneTime(c)
    \/ \E origin \in ExchangeOrigins, token \in ExchangeTokens :
          ExchangeEndpoint(origin, <<>>, token)

SpecExchange == InitPipeline /\ [][NextExchange]_vars

\* the instants at which the requests of one tenant arrive: a burst and
\* the last second of its window
BudgetTimePoints == {0, RATE_LIMIT_WINDOW_SECONDS - 1}

TickBudget == RateTick(BudgetTimePoints)

\* requests of tenant A, with its credential and from an allowed origin
NextBudget ==
    \/ TickBudget
    \/ \E route \in Routes : RouteRequest(route, AppExample, <<>>, Some(<<-1>>))

SpecBudget == Init /\ [][NextBudget]_vars

-----------------------------------------------------------------------------
(* One-time tokens are single use *)

OneTimeIssued == {token \in DOMAIN tokHist.kind : tokHist.kind[token] = "one_time"}

SessionsIssued == {token \in DOMAIN tokHist.kind : tokHist.kind[token] = "session"}

\* the last call was exchange_one_time_token(token) for an issued token
ExchangedNow(token) == ret.op = "exchange" /\ ret.arg = token

\* C1: of the exchange calls made with an issued one-time token within its 5
\* minutes exactly one succeeds, the first: after each such call the token has
\* succeeded exactly once, so a call that fails is a reuse; no token ever
\* succeeds twice, and once a reuse was refused the record is gone.
C1_ExactlyOneExchange ==
    \A token \in OneTimeIssued :
        /\ tokHist.succ[token] <= 1
        /\ (ExchangedNow(token) /\ now <= tokHist.at[token] + OneTimeLifetime)
              => tokHist.succ[token] = 1
        /\ (ExchangedNow(token) /\ ret.res = None /\ tokHist.succ[token] = 1)
              => Sha256(token) \notin DOMAIN oneTimeTokens
        /\ token \in tokHist.reused => Sha256(token) \notin DOMAIN oneTimeTokens

\* a reuse within the 5 minutes was refused
C1_Witness ==
    \E token \in OneTimeIssued :
        /\ ExchangedNow(token) /\ ret.res = None
        /\ token \in tokHist.reused
        /\ now <= tokHist.at[token] + OneTimeLifetime

\* C2: an exchange later than 5 minutes after issuance returns None, consumed
\* or not, and leaves no record of the token.
C2_ExpiredExchangeFails ==
    \A token \in OneTimeIssued :
        (ExchangedNow(token) /\ now > tokHist.at[token] + OneTimeLifetime)
            => /\ ret.res = None
               /\ Sha256(token) \notin DOMAIN oneTimeTokens

\* a consumed token is presented again after its expiry
C2_Witness ==
    \E token \in OneTimeIssued :
        /\ ExchangedNow(token) /\ ret.res = None
        /\ now > tokHist.at[token] + OneTimeLifetime
        /\ tokHist.succ[token] = 1

-----------------------------------------------------------------------------
(* Session tokens: absolute expiry, revocation *)

ValidatedNow(token) == ret.op = "validate" /\ ret.arg = token

\* C4: a session token that was not revoked validates to its tenant at every
\* time up to 4 hours after it was issued and to None at every later time,
\* and the expiry the store holds for it is the one it was issued with,
\* whatever calls were made since.
C4_AbsoluteExpiry ==
    \A token \in SessionsIssued :
        /\ token \in DOMAIN sessionStore
              => sessionStore[token].expiry = tokHist.at[token] + SessionLifetime
        /\ (ValidatedNow(token) /\ token \notin tokHist.revoked)
              => ret.res = IF now <= tokHist.at[token] + SessionLifetime
                           THEN Some(tokHist.tenant[token])
                           ELSE None

\* a token is refused in the first second after its 4 hours
C4_Witness ==
    \E token \in SessionsIssued :
        /\ ValidatedNow(token) /\ ret.res = None
        /\ token \notin tokHist.revoked
        /\ now = tokHist.at[token] + SessionLifetime + 1

\* C5: revoke returns TRUE exactly when the store held the token, removes
\* that record and no other, and changes nothing when the store did not hold
\* it; a revoked token is never in the store again, so validate returns None
\* for it and a second revoke returns FALSE.
C5_Revoke ==
    /\ [](\A token \in tokHist.revoked :
              /\ token \notin DOMAIN sessionStore
              /\ ValidatedNow(token) => ret.res = None)
    /\ [][ret'.op = "revoke" =>
            LET token == ret'.arg
            IN  /\ ret'.res = (token \in DOMAIN sessionStore)
                /\ sessionStore' = DictDel(sessionStore, token)
                /\ oneTimeTokens' = oneTimeTokens]_vars

\* a revoked token is revoked once more
C5_Witness ==
    /\ ret.op = "revoke" /\ ret.res = FALSE
    /\ ret.arg \in tokHist.revoked
    /\ now <= tokHist.at[ret.arg] + SessionLifetime

\* C6: the exchange of a one-time token issued for a tenant returns that
\* tenant and a session token the store binds to that tenant; validating that
\* session token returns that tenant while the token lives and never another
\* tenant, and None once it was revoked.
C6_EndToEnd ==
    /\ (ret.op = "exchange" /\ ret.res # None) =>
          LET client_id == ret.res[1][1]
              session == ret.res[1][2]
          IN  /\ ret.arg \in OneTimeIssued
              /\ client_id = tokHist.tenant[ret.arg]
              /\ session \in DOMAIN sessionStore
              /\ sessionStore[session].client_id = client_id
    /\ \A session \in SessionsIssued :
          ValidatedNow(session) =>
            LET owner == tokHist.tenant[tokHist.from[session]]
            IN  /\ ret.res \in {None, Some(owner)}
                /\ session \in tokHist.revoked => ret.res = None
                /\ (session \notin tokHist.revoked
                       /\ now <= tokHist.at[session] + SessionLifetime)
                     => ret.res = Some(owner)

\* the session token of tenant B's exchange is refused after its revocation,
\* within its 4 hours
C6_Witness ==
    \E session \in SessionsIssued :
        /\ ValidatedNow(session) /\ ret.res = None
        /\ session \in tokHist.revoked
        /\ tokHist.tenant[tokHist.from[session]] = "B"
        /\ now <= tokHist.at[session] + SessionLifetime

-----------------------------------------------------------------------------
(* Rate limiting *)

\* the recorded entries of a tenant whose timestamp lies in the trailing window
InWindow(store, c, t) ==
    LET entries == Entries(store, str(c))
    IN  {i \in 1 .. Len(entries) : t - entries[i][1] < RATE_LIMIT_WINDOW_SECONDS}

RECURSIVE SumOver(_, _)
SumOver(entries, indices) ==
    IF indices = {} THEN 0
    ELSE LET i == CHOOSE x \in indices : TRUE
         IN  entries[i][2] + SumOver(entries, indices \ {i})

\* the sum of the counts of a tenant's entries in the trailing window
TrailingSum(c) ==
    SumOver(Entries(rateLimitStore, str(c)), InWindow(rateLimitStore, c, now))

\* the timestamps and counts of a tenant's entries in the trailing window
TrailingEntries(store, c, t) ==
    LET entries == Entries(store, str(c))
    IN  [i \in InWindow(store, c, t) |-> entries[i]]

CheckedNow(c) == ret.op = "check" /\ ret.arg = c

\* the tenant made no admitted call in the window before the present instant
QuietBefore(c) ==
    \/ rateHist[c].before < 0
    \/ now - rateHist[c].before >= RATE_LIMIT_WINDOW_SECONDS

\* C7: of the calls a tenant makes at one instant, after a full window without
\* admitted calls, the first 60 are admitted and the 61st and later ones are
\* rejected, the ceiling reported being 60; this holds again for the calls
\* made once the window of an earlier burst has passed.
C7_BurstAndRecovery ==
    \A c \in Clients :
        (CheckedNow(c) /\ QuietBefore(c))
            => /\ ret.res[1] = (rateHist[c].calls <= 60)
               /\ ret.res[1] => ret.res[2] = rateHist[c].calls
               /\ ret.res[3] = 60

\* 60 seconds after a burst at 0 a second burst is admitted up to its 61st call
C7_Witness ==
    /\ CheckedNow("A") /\ ret.res = <<FALSE, 60, 60>>
    /\ rateHist["A"].calls = 61
    /\ rateHist["A"].before = 0
    /\ now = RATE_LIMIT_WINDOW_SECONDS

\* C8: for every tenant the counts of the entries recorded within the
\* trailing 60 seconds sum to at most the ceiling.
C8_WindowSumBounded ==
    \A c \in Clients : TrailingSum(c) <= RATE_LIMIT_REQUESTS

\* the window is full with entries of two instants, and a call was rejected
C8_Witness ==
    /\ CheckedNow("A") /\ ~ret.res[1]
    /\ TrailingSum("A") = RATE_LIMIT_REQUESTS
    /\ \E i, j \in InWindow(rateLimitStore, "A", now) :
          rateLimitStore[str("A")][i][1] # rateLimitStore[str("A")][j][1]

\* C9: a call for one tenant leaves the in-window entries of every other
\* tenant as they were, and a tenant's call is rejected only when that
\* tenant's own window is full.
C9_TenantScoped ==
    /\ [](\A c \in Clients :
              (CheckedNow(c) /\ ~ret.res[1]) => TrailingSum(c) >= RATE_LIMIT_REQUESTS)
    /\ [][ret'.op = "check" =>
            \A other \in Clients \ {ret'.arg} :
                TrailingEntries(rateLimitStore', other, now')
                    = TrailingEntries(rateLimitStore, other, now)]_vars

\* tenant B is admitted up to its ceiling while tenant A's window is full
C9_Witness ==
    /\ CheckedNow("B") /\ ret.res = <<TRUE, 60, 60>>
    /\ TrailingSum("A") = RATE_LIMIT_REQUESTS

-----------------------------------------------------------------------------
(* Concurrent exchanges of one token *)

\* C3: of the handlers that exchange the same one-time token at the same
\* time, under every interleaving the event loop allows, at most one reads
\* the record as unconsumed and at most one returns a session token.
C3_OneWinner ==
    \A token \in OneTimeIssued :
        LET same == {h \in Handlers : handlers[h].token = token}
        IN  /\ Cardinality({h \in same : handlers[h].saw = "unconsumed"}) <= 1
            /\ Cardinality({h \in same : handlers[h].result # None}) <= 1

\* two handlers held the same token before either ran: one returned a
\* session token, the other read the record as consumed
C3_Witness ==
    \E h1, h2 \in Handlers :
        /\ h1 # h2
        /\ handlers[h1].token = handlers[h2].token
        /\ handlers[h1].raced /\ handlers[h2].raced
        /\ handlers[h1].result # None
        /\ handlers[h2].pc = "done" /\ handlers[h2].saw = "consumed"

-----------------------------------------------------------------------------
(* Origin validation *)

StateChanging == {"POST", "PUT", "DELETE", "PATCH"}

\* C10: a POST, PUT, DELETE or PATCH request whose Origin header the
\* allow-list does not admit is rejected with 403, as is the origin
\* https://evil.example under the allow-list [https://app.example]; a request
\* with any other method is never rejected.
C10_StateChangingChecked ==
    ret.op = "origin" =>
        LET method == ret.arg.method
            origin == ret.arg.origin
        IN  /\ (method \in StateChanging /\ origin # <<>>
                  /\ ~_is_origin_allowed(allowedOrigins, origin))
                 => ret.res = Some(403)
            /\ (method \in StateChanging
                  /\ origin \in {EvilExample, SubExampleCom, NotExampleCom}
                  /\ allowedOrigins \in {ParseAllowedOrigins(OnlyAppExample),
                                          ParseAllowedOrigins(SeveralOrigins)})
                 => ret.res = Some(403)
            /\ method \notin StateChanging => ret.res = None

\* a PATCH from https://evil.example is rejected under [https://app.example]
C10_Witness ==
    /\ ret.op = "origin" /\ ret.res = Some(403)
    /\ ret.arg.method = "PATCH"
    /\ ret.arg.origin = EvilExample
    /\ allowedOrigins = {AppExample}

\* C11: under the allow-list pattern *.example.com, _is_origin_allowed admits
\* https://sub.example.com and rejects https://notexample.com, whose host
\* only ends with the characters of the domain.
C11_WildcardSubdomainOnly ==
    (ret.op = "origin" /\ allowedOrigins = ParseAllowedOrigins(WildcardDomain)) =>
        /\ ret.arg.origin = SubExampleCom
             => _is_origin_allowed(allowedOrigins, ret.arg.origin)
        /\ ret.arg.origin = NotExampleCom
             => ~_is_origin_allowed(allowedOrigins, ret.arg.origin)

\* scheme://netloc of a Referer header
RefererOrigin(referer) ==
    LET parsed == urlparse(referer)
    IN  parsed.scheme \o <<":", "/", "/">> \o parsed.netloc

\* C12: a state-changing request without an Origin header is judged by the
\* origin of its Referer: 403 if the allow-list does not admit it, admitted
\* if it does, and admitted if there is no Referer either.
C12_RefererFallback ==
    (ret.op = "origin" /\ ret.arg.method \in StateChanging /\ ret.arg.origin = <<>>) =>
        IF ret.arg.referer = <<>>
        THEN ret.res = None
        ELSE IF _is_origin_allowed(allowedOrigins, RefererOrigin(ret.arg.referer))
             THEN ret.res = None
             ELSE ret.res = Some(403)

-----------------------------------------------------------------------------
(* Static credential verifier *)

\* C19: verify_client_token returns true exactly when the tenant has a row,
\* the row holds a credential and the candidate equals it; it returns false
\* for a tenant without a row or without a credential; and it never writes
\* the clients table.
C19_VerifyExact ==
    /\ [](ret.op = "verify" =>
            LET client_id == ret.arg.client_id
                known == client_id \in DOMAIN clientsTable
                held == known /\ clientsTable[client_id].access_token # None
            IN  /\ (ret.res.raised = None /\ ret.res.value)
                     <=> (held /\ clientsTable[client_id].access_token
                                    = <<ret.arg.token>>)
                /\ ~held => (ret.res.raised = None /\ ~ret.res.value))
    /\ [][ret'.op = "verify" => clientsTable' = clientsTable]_vars

\* the candidate is the credential the admin tool assigned to B last
C19_Witness ==
    /\ ret.op = "verify" /\ ret.res.value
    /\ ret.arg.client_id = "B"
    /\ ret.arg.token < -2

-----------------------------------------------------------------------------
(* The exchange endpoint *)

\* the one-time token can be exchanged now: its record exists, is not
\* marked used and has not expired
Exchangeable(token) ==
    /\ Sha256(token) \in DOMAIN oneTimeTokens
    /\ ~oneTimeTokens[Sha256(token)].used
    /\ now <= oneTimeTokens[Sha256(token)].expiry

\* the tenants whose static credential is `token`
HoldersOf(token) ==
    {c \in DOMAIN clientsTable : clientsTable[c].access_token = Some(token)}

\* the answer that carries session_token for tenant c
AnswerFor(session_token, c) ==
    [session_token |-> session_token,
     client_id |-> str(c),
     clinic_name |-> IF clientsTable[c].clinic_name = "" THEN "Practice"
                     ELSE clientsTable[c].clinic_name,
     expires_in_hours |-> 4]

\* the request answered in this step got the new session token rng + 1 for
\* tenant c
AnsweredWithSession(c) ==
    /\ ret'.raised = None
    /\ ret'.response = Some(AnswerFor(rng + 1, c))
    /\ rng + 1 \notin DOMAIN sessionStore
    /\ rng + 1 \in DOMAIN sessionStore'
    /\ sessionStore'[rng + 1].client_id = c

\* C17 as stated: a request to the exchange endpoint that passes the origin
\* check is answered 401 whenever its token is no valid unconsumed one-time
\* token, and with a new session token, the tenant's id and display name
\* and expires_in_hours = 4 when it is one of an existing tenant.
C17_ExchangeAnswers ==
    [][(ret'.op = "exchange_token" /\ ret'.raised # Some(403)) =>
          LET token == ret'.arg.token
          IN  IF Exchangeable(token)
              THEN LET c == oneTimeTokens[Sha256(token)].client_id
                   IN  c \in DOMAIN clientsTable => AnsweredWithSession(c)
              ELSE ret'.raised = Some(401)]_vars

\* C17 as amended: 401 is the answer to a token that is neither a valid
\* unconsumed one-time token nor a tenant's static credential; a tenant's
\* static credential is answered like a one-time token of that tenant.
C17_ExchangeAnswersOrUpgrades ==
    [][(ret'.op = "exchange_token" /\ ret'.raised # Some(403)) =>
          LET token == ret'.arg.token
          IN  IF Exchangeable(token)
              THEN LET c == oneTimeTokens[Sha256(token)].client_id
                   IN  c \in DOMAIN clientsTable => AnsweredWithSession(c)
              ELSE IF HoldersOf(token) = {}
              THEN ret'.raised = Some(401)
              ELSE \E c \in HoldersOf(token) : AnsweredWithSession(c)]_vars

\* a one-time token of tenant B, whose clinic_name is empty, was exchanged
C17_Witness ==
    /\ ret.op = "exchange_token" /\ ret.raised = None
    /\ IsOneTime(ret.arg.token)
    /\ ret.response[1].client_id = str("B")
    /\ ret.response[1].clinic_name = "Practice"
    /\ ret.response[1].session_token \in DOMAIN sessionStore

-----------------------------------------------------------------------------
(* Token resolution *)

\* the session token has a record that has not expired
LiveSession(token) ==
    token \in DOMAIN sessionStore /\ now <= sessionStore[token].expiry

-----------------------------------------------------------------------------
(* The order of the steps of a protected route *)

\* C13: on a protected state-changing route a request whose origin the
\* origin check rejects is answered 403 (never 401 or 429) and leaves the
\* rate window records as they were.
C13_OriginBeforeTokenAndRate ==
    [][(/\ ret'.op = "request"
        /\ RouteMethod(ret'.arg.route) \in StateChanging
        /\ validate_origin(allowedOrigins, RouteMethod(ret'.arg.route),
                           ret'.arg.origin, ret'.arg.referer) = Some(HTTP_403_FORBIDDEN))
       => /\ ret'.raised = Some(HTTP_403_FORBIDDEN)
          /\ rateLimitStore' = rateLimitStore]_vars

\* C15: a request to a protected route without the X-Client-Token header
\* is rejected with status 401.
C15_MissingHeaderIs401 ==
    (ret.op = "request" /\ ret.arg.x_client_token = None)
        => ret.raised = Some(HTTP_401_UNAUTHORIZED)

\* the seconds from t until the window of the tenant can admit a request
\* again, no further request being recorded
RetryHorizon(store, client_id, t) ==
    LET Admits(d) ==
            _get_request_count(store, str(client_id), t + d).count
                < RATE_LIMIT_REQUESTS
    IN  CHOOSE d \in 0..RATE_LIMIT_WINDOW_SECONDS :
            Admits(d) /\ \A e \in 0..(d - 1) : ~Admits(e)

\* C16: on every route that requires a client token a request is admitted
\* only after the rate limiter has been consulted for the resolved tenant
\* and has allowed it, and a request of a tenant whose budget is exhausted
\* is admitted on none of them.
C16_AdmittedOnlyWithinBudget ==
    /\ []((ret.op = "request" /\ ret.raised = None)
            => /\ ret.client # None
               /\ ret.rate # None
               /\ ret.rate[1][1])
    /\ [][(/\ ret'.op = "request"
           /\ ret'.client # None
           /\ RetryHorizon(rateLimitStore, ret'.client[1], now) > 0)
          => ret'.raised # None]_vars

-----------------------------------------------------------------------------
(* The answer of the rate limiter to a rejected request *)

\* C18 as stated: the 429 response carries the configured ceiling and, as
\* Retry-After, the number of seconds until the tenant's window can admit a
\* request again.
C18_RetryAfterIsHorizon ==
    (ret.op = "request" /\ ret.raised = Some(HTTP_429_TOO_MANY_REQUESTS))
        => /\ ret.headers.limit = str(RATE_LIMIT_REQUESTS)
           /\ ret.headers.retry_after
                = str(RetryHorizon(rateLimitStore, ret.client[1], now))

\* C18 amended: the 429 response carries the configured ceiling and a
\* Retry-After of the length of the window, which is at least the number of
\* seconds until the tenant's window can admit a request again.
C18_RetryAfterBoundsHorizon ==
    (ret.op = "request" /\ ret.raised = Some(HTTP_429_TOO_MANY_REQUESTS))
        => /\ ret.headers.limit = str(RATE_LIMIT_REQUESTS)
           /\ ret.headers.retry_after = str(RATE_LIMIT_WINDOW_SECONDS)
           /\ RetryHorizon(rateLimitStore, ret.client[1], now)
                \in 1..RATE_LIMIT_WINDOW_SECONDS

\* a request was rejected one second before the window of the tenant admits
\* again and was told to retry after the whole window
C18_Witness ==
    /\ ret.op = "request" /\ ret.raised = Some(HTTP_429_TOO_MANY_REQUESTS)
    /\ ret.headers.retry_after = str(RATE_LIMIT_WINDOW_SECONDS)
    /\ RetryHorizon(rateLimitStore, ret.client[1], now) = 1

-----------------------------------------------------------------------------
(* What a rejected call of the rate limiter leaves behind *)

\* the entries of a tenant that lie in the window that ends at t, in the
\* order of the store
WindowEntries(store, c, t) ==
    Recent(Entries(store, str(c)), t - RATE_LIMIT_WINDOW_SECONDS)

\* C21: a check_rate_limit call made when the in-window sum of the tenant has
\* reached the ceiling returns allowed = false, and a rejected call leaves
\* the tenant's in-window entries as they were, so the time until the tenant
\* is admitted again is the same after the call as before it.
C21_RejectedRecordsNothing ==
    [][ret'.op = "check" =>
        LET c == ret'.arg
            before == WindowEntries(rateLimitStore, c, now)
        IN  /\ SumCounts(before) >= RATE_LIMIT_REQUESTS => ~ret'.res[1]
            /\ ~ret'.res[1] =>
                 /\ WindowEntries(rateLimitStore', c, now) = before
                 /\ RetryHorizon(rateLimitStore', c, now)
                      = RetryHorizon(rateLimitStore, c, now)]_vars

\* a call was rejected in the last second of the window of a burst, a second
\* time in a row
C21_Witness ==
    /\ CheckedNow("A") /\ ~ret.res[1]
    /\ rateHist["A"].calls >= 2
    /\ now = RATE_LIMIT_WINDOW_SECONDS - 1
    /\ RetryHorizon(rateLimitStore, "A", now) = 1

-----------------------------------------------------------------------------
(* Session tokens an exchange creates *)

\* C22: a successful exchange_one_time_token call adds exactly one new entry
\* to the session store, bound to the tenant of the one-time token, and
\* changes no other entry that stays; a failed call changes the session
\* store in nothing.
C22_OneSessionPerExchange ==
    [][ret'.op = "exchange" =>
        IF ret'.res # None
        THEN LET session == ret'.res[1][2]
             IN  /\ ret'.arg \in OneTimeIssued
                 /\ DOMAIN sessionStore' \ DOMAIN sessionStore = {session}
                 /\ sessionStore'[session].client_id = tokHist.tenant[ret'.arg]
                 /\ \A other \in DOMAIN sessionStore' \ {session} :
                        sessionStore'[other] = sessionStore[other]
        ELSE sessionStore' = sessionStore]_vars

\* the exchange of a one-time token of tenant B, in its last valid second,
\* added a session of tenant B to the store
C22_Witness ==
    /\ ret.op = "exchange" /\ ret.res # None
    /\ tokHist.tenant[ret.arg] = "B"
    /\ now = tokHist.at[ret.arg] + OneTimeLifetime
    /\ ret.res[1][2] \in DOMAIN sessionStore
    /\ sessionStore[ret.res[1][2]].client_id = "B"

-----------------------------------------------------------------------------
(* Concurrent calls of the rate limiter.  check_rate_limit is called by the *)
(* coroutine rate_limit_dependency (async def) of the one event loop; the   *)
(* handlers below take its statements one at a time and leave the loop to   *)
(* one another only where the coroutine awaits.                             *)

\* handlers that are preempted after every statement, as threads are
RateAwaitPointsOfThreads == {"read", "write", "record"}

\* the places of rate_limit_dependency and check_rate_limit at which the
\* coroutine awaits: there is none
RateAwaitPoints == {}

\* the handler that goes on at `pc` leaves the loop to the others, or keeps it
LoopAfterStep(h, pc) == IF pc = "idle" \/ pc \in RateAwaitPoints THEN 0 ELSE h

\* a handler that has no request
IdleChecker == [pc |-> "idle", client |-> "A", recent |-> <<>>, count |-> 0,
                raced |-> FALSE]

\* the state after import; rateHist holds, for every tenant, the times of
\* the admitted calls of the trailing window, in the order of admission
InitCheckers ==
    /\ now = 0
    /\ InitTokens
    /\ rateLimitStore = EmptyDict
    /\ lastCleanupTime = 0
    /\ rateHist = [c \in Clients |-> <<>>]
    /\ loop = 0
    /\ handlers = [h \in Handlers |-> IdleChecker]
    /\ allowedOrigins = ParseAllowedOrigins(OnlyAppExample)
    /\ clientsTable = BothCredentials
    /\ ret = NoRet

\* the other handlers that wait to run for the same tenant as h
WaitingWith(h) ==
    {other \in Handlers \ {h} :
        handlers[other].pc = "sweep" /\ handlers[other].client = handlers[h].client}

\* a request of tenant c reaches rate_limit_dependency
ArriveCheck(h, c) ==
    /\ handlers[h].pc = "idle"
    /\ handlers' = [handlers EXCEPT ![h] = [IdleChecker EXCEPT !.pc = "sweep",
                                                              !.client = c]]
    /\ ret' = NoRet
    /\ UNCHANGED <<now, tokVars, rateVars, loop, allowedOrigins, clientsTable>>

\* check_rate_limit: _cleanup_rate_limit_store()
SweepStep(h) ==
    /\ handlers[h].pc = "sweep"
    /\ MayRun(h)
    /\ LET swept == _cleanup_rate_limit_store(rateLimitStore, lastCleanupTime, now)
       IN  /\ rateLimitStore' = swept.store
           /\ lastCleanupTime' = swept.last
    /\ handlers' = [x \in Handlers |->
           IF x = h
           THEN [handlers[h] EXCEPT !.pc = "read",
                                    !.raced = @ \/ WaitingWith(h) # {}]
           ELSE [handlers[x] EXCEPT !.raced = @ \/ x \in WaitingWith(h)]]
    /\ loop' = LoopAfterStep(h, "read")
    /\ ret' = NoRet
    /\ UNCHANGED <<now, tokVars, rateHist, allowedOrigins, clientsTable>>

\* _get_request_count: the list comprehension over _rate_limit_store[client_id]
ReadStep(h) ==
    /\ handlers[h].pc = "read"
    /\ MayRun(h)
    /\ handlers' = [handlers EXCEPT
           ![h].pc = "write",
           ![h].recent = Recent(Entries(rateLimitStore, str(handlers[h].client)),
                                now - RATE_LIMIT_WINDOW_SECONDS)]
    /\ loop' = LoopAfterStep(h, "write")
    /\ ret' = NoRet
    /\ UNCHANGED <<now, tokVars, rateVars, allowedOrigins, clientsTable>>

\* _get_request_count: _rate_limit_store[client_id] = recent_requests, and
\* the sum it returns
WriteStep(h) ==
    /\ handlers[h].pc = "write"
    /\ MayRun(h)
    /\ rateLimitStore' = DictSet(rateLimitStore, str(handlers[h].client),
                                 handlers[h].recent)
    /\ handlers' = [handlers EXCEPT
           ![h].pc = "record",
           ![h].count = SumCounts(handlers[h].recent)]
    /\ loop' = LoopAfterStep(h, "record")
    /\ ret' = NoRet
    /\ UNCHANGED <<now, tokVars, lastCleanupTime, rateHist, allowedOrigins,
                   clientsTable>>

\* check_rate_limit: the test of current_count, _record_request and the return
RecordStep(h) ==
    /\ handlers[h].pc = "record"
    /\ MayRun(h)
    /\ LET c == handlers[h].client
           current_count == handlers[h].count
           is_allowed == ~(current_count >= RATE_LIMIT_REQUESTS)
       IN  /\ rateLimitStore' = IF is_allowed
                                THEN _record_request(rateLimitStore, str(c), now)
                                ELSE rateLimitStore
           /\ rateHist' = IF is_allowed
                          THEN [rateHist EXCEPT ![c] = Append(@, now)]
                          ELSE rateHist
           /\ ret' = [op |-> "checked", arg |-> c, raced |-> handlers[h].raced,
                      res |-> IF is_allowed
                              THEN <<TRUE, current_count + 1, RATE_LIMIT_REQUESTS>>
                              ELSE <<FALSE, current_count, RATE_LIMIT_REQUESTS>>]
    /\ handlers' = [handlers EXCEPT ![h] = IdleChecker]
    /\ loop' = LoopAfterStep(h, "idle")
    /\ UNCHANGED <<now, tokVars, lastCleanupTime, allowedOrigins, clientsTable>>

\* the instants at which the calls arrive: a burst, the first second after
\* its window, and the first second at which the periodic sweep is due
CheckerTimePoints ==
    {0, RATE_LIMIT_WINDOW_SECONDS, RATE_LIMIT_CLEANUP_INTERVAL}

\* the clock moves on between the runs of the handlers; the admitted calls
\* that leave the trailing window leave the history
TickCheckers ==
    /\ loop = 0
    /\ TickTo(CheckerTimePoints)
    /\ rateHist' = [c \in Clients |->
                      SelectSeq(rateHist[c],
                                LAMBDA t : t > now' - RATE_LIMIT_WINDOW_SECONDS)]
    /\ UNCHANGED <<tokVars, rateLimitStore, lastCleanupTime, loopVars>>

NextCheckers ==
    \/ TickCheckers
    \/ \E h \in Handlers, c \in BurstClients : ArriveCheck(h, c)
    \/ \E h \in Handlers : SweepStep(h)
    \/ \E h \in Handlers : ReadStep(h)
    \/ \E h \in Handlers : WriteStep(h)
    \/ \E h \in Handlers : RecordStep(h)

SpecCheckers == InitCheckers /\ [][NextCheckers]_vars

\* the entries the admitted calls `times` of a tenant recorded
RecordedBy(times) == [i \in 1 .. Len(times) |-> <<times[i], 1>>]

\* C23: under every interleaving of the concurrent check_rate_limit calls of
\* a tenant that the event loop allows, the calls admitted within a window
\* are at most the ceiling, and the store holds the entry of every admitted
\* call of the window: none is lost by another call's pruning write.
C23_AtomicPerTenant ==
    \A c \in Clients :
        /\ Len(rateHist[c]) <= RATE_LIMIT_REQUESTS
        /\ WindowEntries(rateLimitStore, c, now) = RecordedBy(rateHist[c])

\* of the handlers that waited at the same time for the same tenant, one was
\* admitted as the 60th call of the window and this one was rejected
C23_Witness ==
    /\ ret.op = "checked" /\ ret.raced
    /\ ret.res = <<FALSE, RATE_LIMIT_REQUESTS, RATE_LIMIT_REQUESTS>>
    /\ Len(rateHist[ret.arg]) = RATE_LIMIT_REQUESTS
    /\ now = RATE_LIMIT_WINDOW_SECONDS

-----------------------------------------------------------------------------
(* Concurrent operations of the session store.  validate_session_token is   *)
(* called by the coroutine require_client_token, generate_session_token by  *)
(* the coroutine exchange_token; revoke_session_token is a plain function.  *)
(* The handlers below take the statements of validate and revoke one at a   *)
(* time and leave the loop to one another only where a coroutine awaits.    *)

\* handlers that are preempted after every statement, as threads are
SessionAwaitPointsOfThreads == {"purge", "member", "read", "expire", "delete"}

\* the places of require_client_token, validate_session_token and
\* revoke_session_token at which the caller awaits: there is none
SessionAwaitPoints == {}

\* the handler that goes on at `pc` leaves the loop to the others, or keeps it
LoopAfterStatement(h, pc) ==
    IF pc = "idle" \/ pc \in SessionAwaitPoints THEN 0 ELSE h

\* a handler that has no request
IdleSessionHandler == [pc |-> "idle", op |-> "none", token |-> 0, expired |-> {},
                       rec |-> None, raced |-> FALSE]

InitSessions ==
    /\ now = 0
    /\ InitTokens
    /\ InitRate
    /\ loop = 0
    /\ handlers = [h \in Handlers |-> IdleSessionHandler]
    /\ allowedOrigins = ParseAllowedOrigins(OnlyAppExample)
    /\ clientsTable = BothCredentials
    /\ ret = NoRet

\* generate_session_token(c), as exchange_token calls it for a tenant
GenerateSession(c) ==
    /\ loop = 0
    /\ rng < MaxSessions
    /\ LET fresh == rng + 1
       IN  /\ sessionStore' = generate_session_token(sessionStore, c, fresh, now)
           /\ rng' = fresh
           /\ tokHist' = [tokHist EXCEPT
                  !.kind = DictSet(@, fresh, "session"),
                  !.at = DictSet(@, fresh, now),
                  !.tenant = DictSet(@, fresh, c)]
           /\ ret' = [op |-> "generate", arg |-> c, res |-> fresh]
    /\ UNCHANGED <<now, oneTimeTokens, rateVars, loopVars>>

\* the other handlers that wait to run with the same token as h when h runs
WaitingForToken(h) ==
    {other \in Handlers \ {h} :
        /\ handlers[other].pc \in {"scan", "test"}
        /\ handlers[other].token = handlers[h].token}

\* a request arrives whose handler calls validate_session_token(token), or
\* revoke_session_token(token)
ArriveSession(h, op, token) ==
    /\ handlers[h].pc = "idle"
    /\ handlers' = [handlers EXCEPT
           ![h] = [IdleSessionHandler EXCEPT
                     !.pc = IF op = "validate" THEN "scan" ELSE "test",
                     !.op = op, !.token = token]]
    /\ ret' = NoRet
    /\ UNCHANGED <<now, tokVars, rateVars, loop, allowedOrigins, clientsTable>>

\* the handler h goes on at pc, with the locals it has
GoOn(h, pc, locals) ==
    /\ handlers' = [handlers EXCEPT ![h] = [locals EXCEPT !.pc = pc]]
    /\ loop' = LoopAfterStatement(h, pc)
    /\ ret' = NoRet

\* the call of the handler h ends: it returns `res`, or raises `raised`
Finish(h, res, raised) ==
    /\ handlers' = [handlers EXCEPT ![h] = IdleSessionHandler]
    /\ loop' = LoopAfterStatement(h, "idle")
    /\ ret' = [op |-> handlers[h].op, arg |-> handlers[h].token,
               raced |-> handlers[h].raced, res |-> res, raised |-> raised]

Return(h, res) == Finish(h, res, None)

\* d[k] of a key the dict does not hold, del d[k] likewise
KeyError(h) == Finish(h, None, Some("KeyError"))

\* _cleanup_expired_sessions: the list of the expired tokens
ScanStep(h) ==
    /\ handlers[h].pc = "scan"
    /\ MayRun(h)
    /\ handlers' = [handlers EXCEPT
           ![h].pc = "purge",
           ![h].expired = {k \in DOMAIN sessionStore : sessionStore[k].expiry < now},
           ![h].raced = WaitingForToken(h) # {}]
    /\ loop' = LoopAfterStatement(h, "purge")
    /\ ret' = NoRet
    /\ UNCHANGED <<now, tokVars, rateVars, allowedOrigins, clientsTable>>

\* _cleanup_expired_sessions: del _session_store[token] for the listed
\* tokens; the del of a token the store no longer holds raises KeyError
PurgeStep(h) ==
    /\ handlers[h].pc = "purge"
    /\ MayRun(h)
    /\ sessionStore' = [k \in DOMAIN sessionStore \ handlers[h].expired |->
                           sessionStore[k]]
    /\ IF handlers[h].expired \subseteq DOMAIN sessionStore
       THEN GoOn(h, "member", handlers[h])
       ELSE KeyError(h)
    /\ UNCHANGED <<now, rng, oneTimeTokens, tokHist, rateVars, allowedOrigins,
                   clientsTable>>

\* validate_session_token: if session_token not in _session_store
MemberStep(h) ==
    /\ handlers[h].pc = "member"
    /\ MayRun(h)
    /\ IF handlers[h].token \in DOMAIN sessionStore
       THEN GoOn(h, "read", handlers[h])
       ELSE Return(h, None)
    /\ UNCHANGED <<now, tokVars, rateVars, allowedOrigins, clientsTable>>

\* validate_session_token: client_id, expiry = _session_store[session_token]
ReadRecordStep(h) ==
    /\ handlers[h].pc = "read"
    /\ MayRun(h)
    /\ IF handlers[h].token \in DOMAIN sessionStore
       THEN GoOn(h, "expire",
                 [handlers[h] EXCEPT !.rec = Some(sessionStore[handlers[h].token])])
       ELSE KeyError(h)
    /\ UNCHANGED <<now, tokVars, rateVars, allowedOrigins, clientsTable>>

\* validate_session_token: the test of the expiry, the del of the expired
\* record, and the return
ExpireStep(h) ==
    /\ handlers[h].pc = "expire"
    /\ MayRun(h)
    /\ LET token == handlers[h].token
           rec == handlers[h].rec[1]
       IN  IF now > rec.expiry
           THEN /\ sessionStore' = DictDel(sessionStore, token)
                /\ IF token \in DOMAIN sessionStore THEN Return(h, None)
                   ELSE KeyError(h)
           ELSE /\ sessionStore' = sessionStore
                /\ Return(h, Some(rec.client_id))
    /\ UNCHANGED <<now, rng, oneTimeTokens, tokHist, rateVars, allowedOrigins,
                   clientsTable>>

\* revoke_session_token: if session_token in _session_store
TestStep(h) ==
    /\ handlers[h].pc = "test"
    /\ MayRun(h)
    /\ IF handlers[h].token \in DOMAIN sessionStore
       THEN GoOn(h, "delete", [handlers[h] EXCEPT !.raced = WaitingForToken(h) # {}])
       ELSE /\ handlers' = [handlers EXCEPT ![h] = IdleSessionHandler]
            /\ loop' = LoopAfterStatement(h, "idle")
            /\ ret' = [op |-> "revoke", arg |-> handlers[h].token,
                       raced |-> WaitingForToken(h) # {},
                       res |-> FALSE, raised |-> None]
    /\ UNCHANGED <<now, tokVars, rateVars, allowedOrigins, clientsTable>>

\* revoke_session_token: del _session_store[session_token], return True
DeleteStep(h) ==
    /\ handlers[h].pc = "delete"
    /\ MayRun(h)
    /\ sessionStore' = DictDel(sessionStore, handlers[h].token)
    /\ tokHist' = [tokHist EXCEPT !.revoked = @ \cup {handlers[h].token}]
    /\ IF handlers[h].token \in DOMAIN sessionStore THEN Return(h, TRUE)
       ELSE KeyError(h)
    /\ UNCHANGED <<now, rng, oneTimeTokens, rateVars, allowedOrigins, clientsTable>>

\* the tenant for which the session tokens of the concurrent handlers are
\* generated
SessionOwners == {"A"}

\* the instants at which the calls arrive: issuance and the first expired
\* second of a session token
SessionTimePoints == {0, SessionLifetime + 1}

\* the clock moves on between the runs of the handlers
TickSessions ==
    /\ loop = 0
    /\ TickTo(SessionTimePoints)
    /\ UNCHANGED <<tokVars, rateVars, loopVars>>

NextSessions ==
    \/ TickSessions
    \/ \E c \in SessionOwners : GenerateSession(c)
    \/ \E h \in Handlers, op \in {"validate", "revoke"}, token \in PresentedTokens :
          ArriveSession(h, op, token)
    \/ \E h \in Handlers : ScanStep(h)
    \/ \E h \in Handlers : PurgeStep(h)
    \/ \E h \in Handlers : MemberStep(h)
    \/ \E h \in Handlers : ReadRecordStep(h)
    \/ \E h \in Handlers : ExpireStep(h)
    \/ \E h \in Handlers : TestStep(h)
    \/ \E h \in Handlers : DeleteStep(h)

SpecSessions == InitSessions /\ [][NextSessions]_vars

-----------------------------------------------------------------------------
(* The rate limiter with and without its periodic sweep.  Beside the store  *)
(* of the program, rateHist holds the store that the same calls leave when  *)
(* the sweep is never due.                                                  *)

InitSweep ==
    /\ now = 0
    /\ InitTokens
    /\ rateLimitStore = EmptyDict
    /\ lastCleanupTime = 0
    /\ rateHist = [store |-> EmptyDict]
    /\ InitLoop
    /\ allowedOrigins = ParseAllowedOrigins(OnlyAppExample)
    /\ clientsTable = BothCredentials
    /\ ret = NoRet

\* check_rate_limit(client_id) at time t when _last_cleanup_time is t: the
\* sweep is not due
check_rate_limit_unswept(store, client_id, t) ==
    check_rate_limit(store, t, client_id, t)

\* check_rate_limit(c), and the same call on the store that is never swept
CheckSwept(c) ==
    \E r \in {check_rate_limit(rateLimitStore, lastCleanupTime, c, now)},
       u \in {check_rate_limit_unswept(rateHist.store, c, now)} :
        /\ rateLimitStore' = r.store
        /\ lastCleanupTime' = r.last
        /\ rateHist' = [store |-> u.store]
        /\ ret' = [op |-> "check_swept", arg |-> c, res |-> r.result,
                   unswept |-> u.result]
        /\ UNCHANGED <<now, tokVars, loopVars>>

\* the instants at which the calls arrive: a first one, the second before
\* the sweep is due, the second at which it is due and the second at which
\* it is due again
SweepTimePoints ==
    {0, RATE_LIMIT_CLEANUP_INTERVAL - 1, RATE_LIMIT_CLEANUP_INTERVAL,
     2 * RATE_LIMIT_CLEANUP_INTERVAL}

\* tenant A calls at the start, and is idle from then on; tenant B calls from
\* the second before the sweep is due
SweepArrivals ==
    {<<"A", 0>>, <<"B", RATE_LIMIT_CLEANUP_INTERVAL - 1>>,
     <<"B", RATE_LIMIT_CLEANUP_INTERVAL>>, <<"B", 2 * RATE_LIMIT_CLEANUP_INTERVAL>>}

TickSweep ==
    /\ TickTo(SweepTimePoints)
    /\ UNCHANGED <<tokVars, rateVars, loopVars>>

NextSweep ==
    \/ TickSweep
    \/ \E c \in Clients :
          /\ <<c, now>> \in SweepArrivals
          /\ c = "A" => TotalEntries(rateLimitStore) < MaxRequests
          /\ CheckSwept(c)

SpecSweep == InitSweep /\ [][NextSweep]_vars

\* s is what is left of the list t when entries are removed from its front
IsSuffix(s, t) ==
    /\ Len(s) <= Len(t)
    /\ s = SubSeq(t, Len(t) - Len(s) + 1, Len(t))

\* C25: every check_rate_limit call returns the same (allowed,
\* current_count, limit) whether the sweep runs every 300 s or never; the
\* store with the sweep holds the same in-window entries for every tenant
\* as the store without it, and lacks only entries outside the window and
\* tenants that have none inside.
C25_SweepIndependent ==
    /\ ret.op = "check_swept" => ret.res = ret.unswept
    /\ \A c \in Clients :
          /\ WindowEntries(rateLimitStore, c, now)
                = WindowEntries(rateHist.store, c, now)
          /\ IsSuffix(Entries(rateLimitStore, str(c)),
                      Entries(rateHist.store, str(c)))

\* a call of tenant B was rejected in the second in which the sweep ran: the
\* sweep removed the idle tenant A and kept the entries of B's window
C25_Witness ==
    /\ ret.op = "check_swept" /\ ret.arg = "B" /\ ~ret.res[1]
    /\ lastCleanupTime = now /\ now = RATE_LIMIT_CLEANUP_INTERVAL
    /\ str("A") \in DOMAIN rateHist.store
    /\ str("A") \notin DOMAIN rateLimitStore

-----------------------------------------------------------------------------
(* Reclaiming expired sessions *)

-----------------------------------------------------------------------------
(* What a refused exchange request leaves behind *)

\* C27: a request that the exchange endpoint answers with 401 has added no
\* session token to the session store.
C27_RefusedExchangeMintsNothing ==
    [][(ret'.op = "exchange_token" /\ ret'.raised = Some(HTTP_401_UNAUTHORIZED))
        => DOMAIN sessionStore' \subseteq DOMAIN sessionStore]_vars

\* the tenant a one-time token was issued for has a row in the table clients
IssuedForKnownTenant(token) ==
    token \in OneTimeIssued /\ tokHist.tenant[token] \in DOMAIN clientsTable

\* C28: an exchange request that the origin check rejects leaves the
\* one-time token store and the session store as they were and draws no
\* session token; an admitted request that presents a tenant's one-time
\* token within its 5 minutes therefore finds it exchanged exactly once,
\* and is answered with a session unless the token was exchanged by an
\* admitted request before.
C28_RejectedExchangeConsumesNothing ==
    /\ [][(ret'.op = "exchange_token" /\ ret'.raised = Some(HTTP_403_FORBIDDEN))
            => /\ oneTimeTokens' = oneTimeTokens
               /\ sessionStore' = sessionStore
               /\ rng' = rng]_vars
    /\ []((/\ ret.op = "exchange_token"
           /\ ret.raised # Some(HTTP_403_FORBIDDEN)
           /\ IssuedForKnownTenant(ret.arg.token)
           /\ now <= tokHist.at[ret.arg.token] + OneTimeLifetime)
          => /\ tokHist.succ[ret.arg.token] = 1
             /\ (ret.raised = None) = (ret.arg.token \notin tokHist.reused))

\* a request from a disallowed origin was rejected with the one-time token of
\* a tenant in its body, within the token's 5 minutes: the token is in the
\* store, unconsumed
C28_Witness ==
    /\ ret.op = "exchange_token" /\ ret.raised = Some(HTTP_403_FORBIDDEN)
    /\ IssuedForKnownTenant(ret.arg.token)
    /\ now <= tokHist.at[ret.arg.token] + OneTimeLifetime
    /\ Sha256(ret.arg.token) \in DOMAIN oneTimeTokens
    /\ ~oneTimeTokens[Sha256(ret.arg.token)].used

-----------------------------------------------------------------------------
(* Requests that fail token resolution *)

\* C29: a request that require_client_token answers with 401 does not reach
\* the rate limiter: the rate limiter's store and the time of its last
\* sweep are the same after the request as before it.
C29_UnauthenticatedNotCounted ==
    [][(ret'.op = "request" /\ ret'.raised = Some(HTTP_401_UNAUTHORIZED))
        => /\ ret'.rate = None
           /\ rateLimitStore' = rateLimitStore
           /\ lastCleanupTime' = lastCleanupTime]_vars

\* a request to POST /chat with a token that is nobody's was answered 401
\* while tenant A's window held a record
C29_Witness ==
    /\ ret.op = "request" /\ ret.raised = Some(HTTP_401_UNAUTHORIZED)
    /\ ret.arg.route = "clinical_chat"
    /\ ret.arg.x_client_token = Some(<<-3>>)
    /\ Entries(rateLimitStore, str("A")) # <<>>

-----------------------------------------------------------------------------
(* The request that follows a rejection.  rateHist holds, for every tenant, *)
(* the time at which its last call was rejected, or -1 when its last call   *)
(* was admitted or it made none; what a call returned is kept together with *)
(* that time as it was before the call.                                     *)

InitRetry ==
    /\ now = 0
    /\ InitTokens
    /\ rateLimitStore = EmptyDict
    /\ lastCleanupTime = 0
    /\ rateHist = [c \in Clients |-> [rejected |-> -1]]
    /\ InitLoop
    /\ allowedOrigins = ParseAllowedOrigins(OnlyAppExample)
    /\ clientsTable = BothCredentials
    /\ ret = NoRet

\* rate_limit_dependency(client) for a request of tenant c
CheckRetry(c) ==
    \E r \in {rate_limit_dependency(rateLimitStore, lastCleanupTime, c, now)} :
        /\ rateLimitStore' = r.store
        /\ lastCleanupTime' = r.last
        /\ rateHist' = [rateHist EXCEPT
               ![c].rejected = IF r.raised # None THEN now ELSE -1]
        /\ ret' = [op |-> "rate_limit", arg |-> c, res |-> r.result,
                   raised |-> r.raised, headers |-> r.headers,
                   after |-> rateHist[c].rejected]
        /\ UNCHANGED <<now, tokVars, loopVars>>

TickRetry ==
    /\ TickTo(RateTimePoints)
    /\ UNCHANGED <<tokVars, rateVars, loopVars>>

NextRetry ==
    \/ TickRetry
    \/ \E c \in BurstClients : CheckRetry(c)

SpecRetry == InitRetry /\ [][NextRetry]_vars

\* C30: the first request a tenant makes 60 seconds or more after a request
\* of its own that was rejected, none made in between, is admitted; the
\* rejection had told it to retry after 60 seconds.
C30_RetryAfterSuffices ==
    /\ (ret.op = "rate_limit" /\ ret.raised # None)
          => ret.headers.retry_after = str(RATE_LIMIT_WINDOW_SECONDS)
    /\ (/\ ret.op = "rate_limit"
        /\ ret.after >= 0
        /\ now >= ret.after + RATE_LIMIT_WINDOW_SECONDS)
       => /\ ret.raised = None
          /\ ret.res[1]

\* the request made exactly 60 seconds after a rejection in the last second
\* of a burst's window was admitted, as the first of its window
C30_Witness ==
    /\ ret.op = "rate_limit" /\ ret.raised = None
    /\ ret.res = <<TRUE, 1, RATE_LIMIT_REQUESTS>>
    /\ ret.after = RATE_LIMIT_WINDOW_SECONDS - 1
    /\ now = 2 * RATE_LIMIT_WINDOW_SECONDS - 1

====
